---- MODULE Spec2Model ----
(***************************************************************************)
(* RepoSearch-frontend: the search page, the repository view (metadata     *)
(* lookup, commit window, contributor pagination, impact ranking) and the  *)
(* API client.                                                             *)
(*                                                                         *)
(* Nine specifications share this module:                                  *)
(*   SpecImpact   the UserImpact panel and its contributorStats memo       *)
(*   SpecMerge    the contributor pagination loop of fetchData             *)
(*   SpecCommits  the CommitTimeline and UserImpact panels side by side    *)
(*   SpecLanguage the LanguageDistribution panel and its languageData memo *)
(*   Spec         the repository page and its fetch cycles                 *)
(*   SpecAnswered the repository page with every lookup answered (fair)    *)
(*   SpecApi      the calls of lib/api.ts and fetchApi                     *)
(*   SpecSearch   the search page (Home)                                   *)
(*   SpecList     the ContributorsList panel and its pagination            *)
(*                                                                         *)
(* JavaScript values are encoded so that TLC never compares values of      *)
(* different types: an absent number is 0, an absent string is "", a null  *)
(* object is a record whose `present` field is FALSE.                      *)
(***************************************************************************)
EXTENDS Integers, Sequences, FiniteSets, TLC

VARIABLES
  uiCommits,      \* UserImpact: commits state
  uiIsLoading,    \* UserImpact: isLoading state
  uiError,        \* UserImpact: error state ("" is null)
  uiPending,      \* UserImpact: a getRepositoryCommits call is outstanding
  uiUpstream      \* the commit window the data source holds for (owner, repo)

ivars == <<uiCommits, uiIsLoading, uiError, uiPending, uiUpstream>>

VARIABLES
  allContributors, \* fetchData: const allContributors: Contributor[]
  page,            \* fetchData: let page
  hasMore,         \* fetchData: let hasMore
  mAwaiting,       \* the loop is suspended at its await
  mFailed,         \* the awaited call rejected and the loop was left
  mRequests,       \* page indices requested so far, in order
  mReceived        \* <<size, shift>> of the pages received so far, in order

mvars == <<allContributors, page, hasMore, mAwaiting, mFailed, mRequests, mReceived>>

VARIABLES
  impl,          \* which RepositoryDetailPage runs: "page" (app/repository/[id]/page.tsx,
                 \* with its four panels) or "mono" (the single-component page)
  repoId,        \* repoId memo: the parsed route parameter, 0 for null
  effectDue,     \* the [repoId] effect has yet to run for the current repoId
  repository,    \* useState<RepositoryDetails | null>
  commits,       \* useState<Commit[]> of the single-component page
  contributors,  \* useState<Contributor[]> of the single-component page
  isLoading,     \* useState(true)
  isNotFound,    \* useState(false)
  route,         \* "repository", or "home" after router.push("/")
  toasts,        \* number of toast.error calls so far
  cycles,        \* one record per started fetchRepositoryData / fetchData call
  panels,        \* state of the mounted panels of the page
  childCalls     \* outstanding data-source calls of the mounted panels

ovars == <<impl, repoId, effectDue, repository, commits, contributors, isLoading,
           isNotFound, route, toasts, cycles, panels, childCalls>>

VARIABLES
  tlCommits,     \* CommitTimeline: commits state
  tlIsLoading,   \* CommitTimeline: isLoading state
  tlError,       \* CommitTimeline: error state ("" is null)
  tlPending      \* CommitTimeline: a getRepositoryCommits call is outstanding

tvars == <<tlCommits, tlIsLoading, tlError, tlPending>>

VARIABLES
  languages,     \* LanguageDistribution: languages state, as its entries in key order
  ldIsLoading,   \* LanguageDistribution: isLoading state
  ldError,       \* LanguageDistribution: error state ("" is null)
  ldPending,     \* LanguageDistribution: a getRepositoryLanguages call is outstanding
  ldUpstream     \* the language map the data source holds for (owner, repo)

lvars == <<languages, ldIsLoading, ldError, ldPending, ldUpstream>>

VARIABLES
  apiState,      \* API client: "idle", "fetching" (fetch is outstanding) or "settled"
  apiCall,       \* the api.* operation called last and its arguments
  apiRequests,   \* number of network requests (fetch calls) issued so far
  apiResponse,   \* what the network answered the last request with
  apiOutcome     \* how the promise of the last call settled

avars == <<apiState, apiCall, apiRequests, apiResponse, apiOutcome>>

VARIABLES
  searchQuery,   \* Home: searchQuery state
  repositories,  \* Home: repositories state
  hmIsLoading,   \* Home: isLoading state
  hmCurrentPage, \* Home: currentPage state
  totalCount,    \* Home: totalCount state
  hmOutstanding, \* Home: the searchRepositories calls not yet answered
  hmLast,        \* Home: how the last answered search ended ("none" before any)
  hmToasts,      \* Home: number of toasts raised so far
  hmExiting      \* Home: the results block kept mounted while it fades out

svars == <<searchQuery, repositories, hmIsLoading, hmCurrentPage, totalCount,
           hmOutstanding, hmLast, hmToasts, hmExiting>>

VARIABLES
  clContributors, \* ContributorsList: contributors state
  clIsLoading,    \* ContributorsList: isLoading state
  clError,        \* ContributorsList: error state ("" is null)
  clCurrentPage,  \* ContributorsList: currentPage state
  clPending,      \* ContributorsList: what the outstanding calls will be answered with
  clFetchDue,     \* ContributorsList: the [owner, repo] effect is due
  clResetDue,     \* ContributorsList: the [contributors.length] effect is due
  clUpstream      \* the contributors the data source holds for (owner, repo)

cvars == <<clContributors, clIsLoading, clError, clCurrentPage, clPending,
           clFetchDue, clResetDue, clUpstream>>

vars == <<ivars, mvars, ovars, tvars, lvars, avars, svars, cvars>>

(***************************************************************************)
(* Generic helpers                                                         *)
(***************************************************************************)
RECURSIVE SumSeq(_)
SumSeq(s) == IF s = <<>> THEN 0 ELSE Head(s) + SumSeq(Tail(s))

Min(S) == CHOOSE x \in S : \A y \in S : x <= y

(***************************************************************************)
(* Commits (types/github.ts Commit), reduced to the fields the view reads. *)
(***************************************************************************)
NoAuthor == [present |-> FALSE, id |-> 0, login |-> "", avatar_url |-> ""]

Author(id, login, avatar) ==
  [present |-> TRUE, id |-> id, login |-> login, avatar_url |-> avatar]

MkCommit(author, email, name) ==
  [author |-> author, email |-> email, name |-> name]

\* The commits an upstream window is drawn from.
CommitValues ==
  { MkCommit(Author(42, "bob", "av42"), "a@x.com", "Bob"),
    MkCommit(Author(42, "",    "av42b"), "b@x.com", "Bob"),
    MkCommit(Author(0,  "bob", "av0"),  "c@x.com", "Bob"),
    MkCommit(Author(0,  "",    ""),     "d@x.com", "Ghost"),
    MkCommit(NoAuthor, "a@x.com", "Ann"),
    MkCommit(NoAuthor, "a@x.com", "Anna"),
    MkCommit(NoAuthor, "A@x.com", "Ann"),
    MkCommit(NoAuthor, "bob",     "Bobby"),
    MkCommit(NoAuthor, "",        "Nobody") }

MaxCommits == 4

RECURSIVE SeqsUpTo(_, _)
SeqsUpTo(S, n) ==
  IF n = 0 THEN {<<>>}
  ELSE LET shorter == SeqsUpTo(S, n - 1)
       IN  shorter \cup {Append(s, x) : s \in {t \in shorter : Len(t) = n - 1}, x \in S}

CommitWindows == SeqsUpTo(CommitValues, MaxCommits)

(***************************************************************************)
(* UserImpact.contributorStats                                             *)
(***************************************************************************)
\* A JavaScript value of type string | number | null used as a Map key:
\* <<"number", n, "">>, <<"string", 0, s>> or <<"null", 0, "">>.
NumberKey(n) == <<"number", n, "">>
StringKey(s) == <<"string", 0, s>>
NullKey == <<"null", 0, "">>

\* if (key): 0, "" and null are falsy.
TruthyLoose(k) == k[1] # "null"
Truthy(k) ==
  /\ k[1] # "null"
  /\ (k[1] = "number" => k[2] # 0)
  /\ (k[1] = "string" => k[3] # "")

\* key = author ? (author.id || author.login || null) : commitAuthorEmail
CommitKey(commit) ==
  IF commit.author.present
    THEN IF commit.author.id # 0 THEN NumberKey(commit.author.id)
         ELSE IF commit.author.login # "" THEN StringKey(commit.author.login)
         ELSE NullKey
    ELSE StringKey(commit.email)

\* The step with an entry that follows the latest commit of its key.
CountCommitLatest(authorCounts, commit) ==
  LET key == CommitKey(commit)
      hit == {i \in 1..Len(authorCounts) : authorCounts[i].key = key}
  IN  IF ~Truthy(key) THEN authorCounts
      ELSE IF hit # {}
        THEN LET i == CHOOSE x \in hit : TRUE
             IN  [authorCounts EXCEPT ![i] =
                    [key |-> key, count |-> @.count + 1, author |-> commit.author,
                     commitAuthorEmail |-> commit.email,
                     commitAuthorName |-> commit.name]]
        ELSE Append(authorCounts,
                    [key |-> key, count |-> 1, author |-> commit.author,
                     commitAuthorEmail |-> commit.email,
                     commitAuthorName |-> commit.name])

\* One step of commits.forEach: the Map as a sequence in insertion order.
CountCommit(authorCounts, commit) ==
  LET key == CommitKey(commit)
      hit == {i \in 1..Len(authorCounts) : authorCounts[i].key = key}
  IN  IF ~Truthy(key) THEN authorCounts
      ELSE IF hit # {}
        THEN LET i == CHOOSE x \in hit : TRUE
             IN  [authorCounts EXCEPT ![i].count = @ + 1]
        ELSE Append(authorCounts,
                    [key |-> key, count |-> 1, author |-> commit.author,
                     commitAuthorEmail |-> commit.email,
                     commitAuthorName |-> commit.name])

RECURSIVE AuthorCounts(_)
AuthorCounts(window) ==
  IF window = <<>> THEN <<>>
  ELSE CountCommit(AuthorCounts(SubSeq(window, 1, Len(window) - 1)),
                   window[Len(window)])

\* const totalCommits = commits.length
TotalCommits(window) == Len(window)

\* The .map(...) callback.  percentage is (count / totalCommits) * 100, kept
\* as the exact fraction num/den; `key` is carried along for reference only.
ToStats(e, totalCommits) ==
  LET isAnonymous == ~e.author.present
  IN  [key         |-> e.key,
       login       |-> IF isAnonymous THEN e.commitAuthorEmail ELSE e.author.login,
       name        |-> IF isAnonymous THEN e.commitAuthorName ELSE e.author.login,
       avatar_url  |-> e.author.avatar_url,
       commitCount |-> e.count,
       percentage  |-> IF totalCommits > 0
                         THEN [num |-> e.count * 100, den |-> totalCommits]
                         ELSE [num |-> 0, den |-> 1],
       isAnonymous |-> isAnonymous]

\* Array.prototype.sort((a, b) => b.commitCount - a.commitCount): a stable
\* sort, here by insertion from the left.
RECURSIVE InsertAfterEquals(_, _)
InsertAfterEquals(sorted, x) ==
  IF sorted = <<>> THEN <<x>>
  ELSE IF x.commitCount > Head(sorted).commitCount THEN <<x>> \o sorted
  ELSE <<Head(sorted)>> \o InsertAfterEquals(Tail(sorted), x)

RECURSIVE InsertBeforeEquals(_, _)
InsertBeforeEquals(sorted, x) ==
  IF sorted = <<>> THEN <<x>>
  ELSE IF x.commitCount >= Head(sorted).commitCount THEN <<x>> \o sorted
  ELSE <<Head(sorted)>> \o InsertBeforeEquals(Tail(sorted), x)

RECURSIVE SortUnstable(_)
SortUnstable(s) ==
  IF s = <<>> THEN <<>>
  ELSE InsertBeforeEquals(SortUnstable(SubSeq(s, 1, Len(s) - 1)), s[Len(s)])

RECURSIVE SortByCommitCount(_)
SortByCommitCount(s) ==
  IF s = <<>> THEN <<>>
  ELSE InsertAfterEquals(SortByCommitCount(SubSeq(s, 1, Len(s) - 1)), s[Len(s)])

contributorStats(window) ==
  IF Len(window) = 0 THEN <<>>
  ELSE LET authorCounts == AuthorCounts(window)
           totalCommits == TotalCommits(window)
       IN  SortByCommitCount([i \in 1..Len(authorCounts) |->
                                ToStats(authorCounts[i], totalCommits)])

(***************************************************************************)
(* fetchData: the contributor pagination loop                              *)
(***************************************************************************)
perPage == 100

SafetyLimit == 10

\* A contributors page the data source may return for page index p: `size`
\* records, numbered as the listing numbers them; with shift = 1 the listing
\* grew by one record since the previous request, so the page starts with the
\* record that ended the previous page.
PageOf(p, size, shift) == [i \in 1..size |-> [id |-> (p - 1) * perPage + i - shift]]

PageSizes == {0, 1, 37, perPage}

PageShapes(p) ==
  {<<size, shift>> : size \in PageSizes, shift \in {0, 1}}
    \ {sh \in PageSizes \X {0, 1} : sh[2] = 1 /\ (p = 1 \/ sh[1] = 0)}

\* The body of `while (hasMore)` after the await, on the loop's locals.
LoopBodyNoShortCheck(st, contributorsPage) ==
  IF Len(contributorsPage) = 0
    THEN [st EXCEPT !.hasMore = FALSE]
    ELSE [allContributors |-> st.allContributors \o contributorsPage,
          page            |-> st.page + 1,
          hasMore         |-> ~(st.page + 1 > SafetyLimit)]

LoopBodyNoCeiling(st, contributorsPage) ==
  IF Len(contributorsPage) = 0
    THEN [st EXCEPT !.hasMore = FALSE]
    ELSE IF Len(contributorsPage) < perPage
      THEN [st EXCEPT !.allContributors = @ \o contributorsPage, !.hasMore = FALSE]
      ELSE [st EXCEPT !.allContributors = @ \o contributorsPage, !.page = @ + 1]

LoopBody(st, contributorsPage) ==
  IF Len(contributorsPage) = 0
    THEN [st EXCEPT !.hasMore = FALSE]
    ELSE IF Len(contributorsPage) < perPage
      THEN [st EXCEPT !.allContributors = @ \o contributorsPage, !.hasMore = FALSE]
      ELSE [allContributors |-> st.allContributors \o contributorsPage,
            page            |-> st.page + 1,
            hasMore         |-> ~(st.page + 1 > SafetyLimit)]

LoopStart == [allContributors |-> <<>>, page |-> 1, hasMore |-> TRUE]

(***************************************************************************)
(* The data source, as the repository page sees it                         *)
(***************************************************************************)
\* Strings the code takes apart are sequences of one-character strings.
RepoIds == {2, 5}

UpstreamOwner(id) == IF id = 2 THEN <<"a", "b">> ELSE <<"c">>

UpstreamName(id) == IF id = 2 THEN <<"x">> ELSE <<"y", "z">>

NoRepository == [id |-> 0, full_name |-> <<>>]

\* The RepositoryDetails the lookup by id answers with.
RepositoryDetails(id) ==
  [id |-> id, full_name |-> UpstreamOwner(id) \o <<"/">> \o UpstreamName(id)]

\* The commit window of (owner, repo).
CommitsOf(owner, repo) ==
  IF owner = <<"a", "b">>
    THEN << MkCommit(Author(42, "bob", "av42"), "a@x.com", "Bob"),
            MkCommit(NoAuthor, "a@x.com", "Ann") >>
    ELSE << MkCommit(Author(0, "bob", "av0"), "c@x.com", "Bob") >>

\* The size of contributors page `p` of (owner, repo): 137 contributors for
\* the first repository, one for the other.
ContributorsPageSize(owner, repo, p) ==
  IF owner = <<"a", "b">>
    THEN IF p = 1 THEN perPage ELSE IF p = 2 THEN 37 ELSE 0
    ELSE IF p = 1 THEN 1 ELSE 0

ContributorsPage(owner, repo, p) == PageOf(p, ContributorsPageSize(owner, repo, p), 0)

\* The language map of (owner, repo), as its entries.
LanguagesOf(owner, repo) ==
  IF owner = <<"a", "b">> THEN << <<"TypeScript", 3000>>, <<"CSS", 1000>> >>
  ELSE << <<"Go", 10>> >>

(***************************************************************************)
(* lib/api.ts                                                              *)
(***************************************************************************)
\* err.message of the ApiError raised by fetchApi for a failed call.
ErrorMessage(status) ==
  IF status = 0 THEN "Network error occurred" ELSE "API request failed"

ErrorStatuses == {0, 404, 500}

\* A panel treats every rejection alike (setError(err.message)).
PanelErrorStatuses == {500}

\* The characters String.prototype.trim removes (those used here).
Whitespace == {" ", "\t", "\n"}

\* !s.trim()
IsBlank(s) == \A i \in 1..Len(s) : s[i] \in Whitespace

\* An ApiError with this status; status -1 stands for a thrown value that is
\* not an ApiError.
IsApiError(status) == status >= 0

\* The owner/repo operations reject with ApiError 400 before any request.
RejectsOwnerRepo(owner, repo) == IsBlank(owner) \/ IsBlank(repo)

\* api.getRepositoryLanguages: validated like the other owner/repo operations.
RejectsLanguages(owner, repo) == IsBlank(owner) \/ IsBlank(repo)

(***************************************************************************)
(* lib/api.ts: the api.* operations and fetchApi                           *)
(***************************************************************************)
OwnerRepoOperations ==
  {"getRepositoryDetails", "getRepositoryContributors", "getRepositoryIssues",
   "getRepositoryCommits"}

Operations ==
  {"healthCheck", "searchRepositories", "getRepositoryById"} \cup OwnerRepoOperations

\* Argument values: strings as sequences of characters, ids as numbers.
StringArguments ==
  { <<>>, <<" ">>, <<" ", "\t", "\n">>, <<"a">>, <<" ", "a", " ">> }

IdArguments == {0, 5, -1}

MkCall(op, s1, s2, id) == [op |-> op, s1 |-> s1, s2 |-> s2, id |-> id]

NoCall == MkCall("none", <<>>, <<>>, 0)

\* The calls a component can make: query in s1; owner in s1 and repo in s2.
Calls ==
  {MkCall("healthCheck", <<>>, <<>>, 0)}
    \cup {MkCall("searchRepositories", q, <<>>, 0) : q \in StringArguments}
    \cup {MkCall("getRepositoryById", <<>>, <<>>, id) : id \in IdArguments}
    \cup {MkCall(op, o, r, 0) : op \in OwnerRepoOperations,
                                o \in StringArguments, r \in StringArguments}

ApiError(message, status) == [kind |-> "ApiError", status |-> status, message |-> message]

Returned == [kind |-> "value", status |-> 0, message |-> ""]

NoOutcome == [kind |-> "none", status |-> 0, message |-> ""]

\* The guard run with only the empty string refused.
ValidationOnlyEmpty(call) ==
  CASE call.op = "searchRepositories" -> call.s1 = <<>>
    [] call.op = "getRepositoryById" -> call.id = 0
    [] call.op \in OwnerRepoOperations -> call.s1 = <<>> \/ call.s2 = <<>>
    [] OTHER -> FALSE

\* The guard at the head of each operation: if (!query.trim()),
\* if (!id), if (!owner.trim() || !repo.trim()).
Validation(call) ==
  CASE call.op = "searchRepositories" -> IsBlank(call.s1)
    [] call.op = "getRepositoryById" -> call.id = 0
    [] call.op \in OwnerRepoOperations -> RejectsOwnerRepo(call.s1, call.s2)
    [] OTHER -> FALSE

\* The ApiError the guard throws.
ValidationError(call) ==
  CASE call.op = "searchRepositories" -> ApiError("Query parameter is required", 400)
    [] call.op = "getRepositoryById" -> ApiError("Repository ID is required", 400)
    [] OTHER -> ApiError("Owner and repo parameters are required", 400)

\* What the network does with a request: fetch rejects, or a response with
\* a status and a body arrives.  Bodies: "object" is JSON without an `error`
\* member, "error" is a JSON object with one, "null" is the JSON text null,
\* "text" is not JSON (an HTML error page), "empty" is no body at all.
StatusCodes == {200, 204, 404, 500}

Bodies == {"object", "error", "null", "text", "empty"}

NoResponse == [transport |-> "none", status |-> 0, body |-> "empty"]

Responses ==
  {[transport |-> "failed", status |-> 0, body |-> "empty"]}
    \cup {[transport |-> "answered", status |-> s, body |-> b] :
            s \in StatusCodes, b \in Bodies}

\* response.ok
Ok(status) == status >= 200 /\ status <= 299

\* fetchApi: await fetch, await response.json(), then the response.ok test;
\* whatever is thrown on the way that is not an ApiError is wrapped into an
\* ApiError with status 0.
fetchApi(response) ==
  IF response.transport = "failed" THEN ApiError("Failed to fetch", 0)
  ELSE IF response.body \in {"text", "empty"} THEN ApiError("Unexpected token", 0)
  ELSE IF ~Ok(response.status)
    THEN IF response.body = "null"
           THEN ApiError("Cannot read properties of null", 0)
           ELSE ApiError(IF response.body = "error" THEN "data.error"
                         ELSE "API request failed with status", response.status)
  ELSE Returned

(***************************************************************************)
(* RepositoryDetailPage                                                    *)
(***************************************************************************)
\* full_name.split("/")
RECURSIVE Split(_, _)
Split(s, sep) ==
  IF \A i \in 1..Len(s) : s[i] # sep THEN <<s>>
  ELSE LET k == Min({i \in 1..Len(s) : s[i] = sep})
       IN  <<SubSeq(s, 1, k - 1)>> \o Split(SubSeq(s, k + 1, Len(s)), sep)

\* const [owner, repo] = full_name.split("/")
OwnerRepoSwapped(full_name) ==
  LET parts == Split(full_name, "/")
  IN  [owner |-> IF Len(parts) >= 2 THEN parts[2] ELSE <<>>, repo |-> parts[1]]

OwnerRepo(full_name) ==
  LET parts == Split(full_name, "/")
  IN  [owner |-> parts[1], repo |-> IF Len(parts) >= 2 THEN parts[2] ELSE <<>>]

MaxCycles == 2

Panels == {"timeline", "contributors", "impact", "languages"}

\* useState initial values of a panel.
PanelInitial == [data |-> <<>>, isLoading |-> TRUE, error |-> ""]

NoPanels == [p \in Panels |-> PanelInitial]

\* What a panel's call resolves with.
PanelData(p, owner, repo) ==
  CASE p = "timeline"     -> CommitsOf(owner, repo)
    [] p = "impact"       -> CommitsOf(owner, repo)
    [] p = "contributors" -> ContributorsPage(owner, repo, 1)
    [] p = "languages"    -> LanguagesOf(owner, repo)

\* The page's own state, gathered for the handlers below.
PageState ==
  [repository |-> repository, commits |-> commits, contributors |-> contributors,
   isLoading |-> isLoading, isNotFound |-> isNotFound, route |-> route,
   toasts |-> toasts]

\* What the component returns: the loader, the 404 view, null, or the page.
View(st) ==
  IF st.route = "home" THEN "Home"
  ELSE IF st.isLoading THEN "Loading"
  ELSE IF st.isNotFound THEN "NotFound"
  ELSE IF st.repository = NoRepository THEN "Blank"
  ELSE "Ready"

\* The panels are part of the returned tree.
PanelsRendered(st) == impl = "page" /\ View(st) = "Ready"

\* The 404 branch notifies as well.
CatchNotFoundNotifies(st, status) ==
  LET caught ==
        IF IsApiError(status) /\ status = 404
          THEN [st EXCEPT !.isNotFound = TRUE, !.toasts = @ + 1]
          ELSE [st EXCEPT !.toasts = @ + 1, !.route = "home"]
  IN  [caught EXCEPT !.isLoading = FALSE]

\* The handler without the finally block.
CatchNoFinally(st, status) ==
  IF IsApiError(status) /\ status = 404
    THEN [st EXCEPT !.isNotFound = TRUE]
    ELSE [st EXCEPT !.toasts = @ + 1, !.route = "home"]

\* catch (err) { ... } finally { setIsLoading(false) }
Catch(st, status) ==
  LET caught ==
        IF IsApiError(status) /\ status = 404
          THEN [st EXCEPT !.isNotFound = TRUE]
          ELSE [st EXCEPT !.toasts = @ + 1, !.route = "home"]
  IN  [caught EXCEPT !.isLoading = FALSE]

NewCycle(id) ==
  [id |-> id, pc |-> "meta", metaStatus |-> -1, failedAt |-> "", failStatus |-> 200,
   repoDetails |-> NoRepository, owner |-> <<>>, repo |-> <<>>, loop |-> LoopStart]

\* The calls the four panel effects start for (owner, repo).
PanelCalls(owner, repo) ==
  {[panel |-> p, owner |-> owner, repo |-> repo] :
     p \in {q \in Panels : IF q = "languages" THEN ~RejectsLanguages(owner, repo)
                           ELSE ~RejectsOwnerRepo(owner, repo)}}

\* Commit the page state `st` and re-render: panels mount (initial state, then
\* their effects run), re-run their effects when owner/repo changed, or
\* unmount; calls of unmounted panels can no longer set state and are dropped.
Render(st) ==
  /\ repository' = st.repository
  /\ commits' = st.commits
  /\ contributors' = st.contributors
  /\ isLoading' = st.isLoading
  /\ isNotFound' = st.isNotFound
  /\ route' = st.route
  /\ toasts' = st.toasts
  /\ IF ~PanelsRendered(st)
       THEN panels' = NoPanels /\ childCalls' = {}
     ELSE LET props == OwnerRepo(st.repository.full_name)
              fresh == ~PanelsRendered(PageState)
              rerun == fresh \/ props # OwnerRepo(repository.full_name)
              rejected(p) == IF p = "languages"
                               THEN RejectsLanguages(props.owner, props.repo)
                               ELSE RejectsOwnerRepo(props.owner, props.repo)
          IN  IF ~rerun THEN UNCHANGED <<panels, childCalls>>
              ELSE /\ panels' =
                        [p \in Panels |->
                           IF rejected(p)
                             THEN [data |-> IF fresh THEN <<>> ELSE panels[p].data,
                                   isLoading |-> FALSE,
                                   error |-> "Owner and repo parameters are required"]
                             ELSE [data |-> IF fresh THEN <<>> ELSE panels[p].data,
                                   isLoading |-> TRUE, error |-> ""]]
                   /\ childCalls' = childCalls \cup PanelCalls(props.owner, props.repo)

(***************************************************************************)
(* Each specification keeps the variables of the others at rest.           *)
(***************************************************************************)
MergeIdle ==
  /\ allContributors = LoopStart.allContributors
  /\ page = LoopStart.page
  /\ hasMore = LoopStart.hasMore
  /\ mAwaiting = FALSE
  /\ mFailed = FALSE
  /\ mRequests = <<>>
  /\ mReceived = <<>>

ImpactIdle ==
  /\ uiUpstream = <<>>
  /\ uiCommits = <<>>
  /\ uiIsLoading = TRUE
  /\ uiError = ""
  /\ uiPending = FALSE

TimelineIdle ==
  /\ tlCommits = <<>>
  /\ tlIsLoading = TRUE
  /\ tlError = ""
  /\ tlPending = FALSE

LanguageIdle ==
  /\ ldUpstream = <<>>
  /\ languages = <<>>
  /\ ldIsLoading = TRUE
  /\ ldError = ""
  /\ ldPending = FALSE

ApiIdle ==
  /\ apiState = "idle"
  /\ apiCall = NoCall
  /\ apiRequests = 0
  /\ apiResponse = NoResponse
  /\ apiOutcome = NoOutcome

SearchIdle ==
  /\ searchQuery = <<>>
  /\ repositories = <<>>
  /\ hmIsLoading = FALSE
  /\ hmCurrentPage = 1
  /\ totalCount = 0
  /\ hmOutstanding = <<>>
  /\ hmLast = "none"
  /\ hmToasts = 0
  /\ hmExiting = [shown |-> FALSE, currentPage |-> 1, totalCount |-> 0]

ListIdle ==
  /\ clContributors = <<>>
  /\ clIsLoading = TRUE
  /\ clError = ""
  /\ clCurrentPage = 1
  /\ clPending = <<>>
  /\ clFetchDue = FALSE
  /\ clResetDue = FALSE
  /\ clUpstream = <<>>

PageIdle ==
  /\ impl = "page"
  /\ repoId = 0
  /\ effectDue = FALSE
  /\ repository = NoRepository
  /\ commits = <<>>
  /\ contributors = <<>>
  /\ isLoading = TRUE
  /\ isNotFound = FALSE
  /\ route = "home"
  /\ toasts = 0
  /\ cycles = <<>>
  /\ panels = NoPanels
  /\ childCalls = {}

\* The component has mounted for /repository/<param>; no effect has run yet.
Init ==
  /\ ApiIdle /\ SearchIdle /\ ListIdle
  /\ MergeIdle
  /\ ImpactIdle
  /\ TimelineIdle
  /\ LanguageIdle
  /\ impl \in {"page", "mono"}
  /\ repoId \in RepoIds \cup {0}
  /\ effectDue = TRUE
  /\ repository = NoRepository
  /\ commits = <<>>
  /\ contributors = <<>>
  /\ isLoading = TRUE
  /\ isNotFound = FALSE
  /\ route = "repository"
  /\ toasts = 0
  /\ cycles = <<>>
  /\ panels = NoPanels
  /\ childCalls = {}

\* The route parameter changes while the page is shown.
Navigate ==
  /\ route = "repository" /\ ~effectDue
  /\ Len(cycles) < MaxCycles
  /\ \E id \in (RepoIds \cup {0}) \ {repoId} : repoId' = id
  /\ effectDue' = TRUE
  /\ UNCHANGED <<impl, repository, commits, contributors, isLoading, isNotFound,
                 route, toasts, cycles, panels, childCalls>>
  /\ UNCHANGED <<ivars, mvars, tvars, lvars, avars, svars, cvars>>

\* useEffect(() => { ... }, [repoId]): the guard, then fetchRepositoryData() /
\* fetchData() up to its first await.
Effect ==
  /\ route = "repository" /\ effectDue
  /\ effectDue' = FALSE
  /\ IF repoId = 0
       THEN /\ Render([PageState EXCEPT !.toasts = @ + 1, !.route = "home"])
            /\ UNCHANGED cycles
       ELSE /\ Render([PageState EXCEPT !.isLoading = TRUE])
            /\ cycles' = Append(cycles, NewCycle(repoId))
  /\ UNCHANGED <<impl, repoId>>
  /\ UNCHANGED <<ivars, mvars, tvars, lvars, avars, svars, cvars>>

\* page.tsx fetchRepositoryData: api.getRepositoryById(repoId) resolves.
PageMetaOkStep(c) ==
  /\ impl = "page" /\ cycles[c].pc = "meta"
  /\ LET repoDetails == RepositoryDetails(cycles[c].id)
     IN  /\ cycles' = [cycles EXCEPT ![c].pc = "done", ![c].metaStatus = 200,
                                     ![c].repoDetails = repoDetails]
         /\ Render([PageState EXCEPT !.repository = repoDetails, !.isLoading = FALSE])
  /\ UNCHANGED <<impl, repoId, effectDue>>
  /\ UNCHANGED <<ivars, mvars, tvars, lvars, avars, svars, cvars>>

\* page.tsx fetchRepositoryData: api.getRepositoryById(repoId) rejects.
PageMetaFailStep(c) ==
  /\ impl = "page" /\ cycles[c].pc = "meta"
  /\ \E status \in ErrorStatuses :
       /\ cycles' = [cycles EXCEPT ![c].pc = "done", ![c].metaStatus = status,
                                   ![c].failedAt = "meta", ![c].failStatus = status]
       /\ Render(Catch(PageState, status))
  /\ UNCHANGED <<impl, repoId, effectDue>>
  /\ UNCHANGED <<ivars, mvars, tvars, lvars, avars, svars, cvars>>

\* A panel's call resolves: setX(data); finally setIsLoading(false).
PanelOkStep(call) ==
  /\ call \in childCalls
  /\ panels' = [panels EXCEPT ![call.panel].data =
                                 PanelData(call.panel, call.owner, call.repo),
                              ![call.panel].isLoading = FALSE]
  /\ childCalls' = childCalls \ {call}
  /\ UNCHANGED <<impl, repoId, effectDue, repository, commits, contributors,
                 isLoading, isNotFound, route, toasts, cycles>>
  /\ UNCHANGED <<ivars, mvars, tvars, lvars, avars, svars, cvars>>

\* A panel's call rejects: setError(err.message); finally setIsLoading(false).
PanelFailStep(call) ==
  /\ call \in childCalls
  /\ \E status \in PanelErrorStatuses :
       panels' = [panels EXCEPT ![call.panel].error = ErrorMessage(status),
                                ![call.panel].isLoading = FALSE]
  /\ childCalls' = childCalls \ {call}
  /\ UNCHANGED <<impl, repoId, effectDue, repository, commits, contributors,
                 isLoading, isNotFound, route, toasts, cycles>>
  /\ UNCHANGED <<ivars, mvars, tvars, lvars, avars, svars, cvars>>

\* fetchData: api.getRepositoryById(repoId) resolves; owner and repo are taken
\* from full_name and api.getRepositoryCommits(owner, repo, 100) is called.
MonoMetaOkStep(c) ==
  /\ impl = "mono" /\ cycles[c].pc = "meta"
  /\ LET repoDetails == RepositoryDetails(cycles[c].id)
         names == OwnerRepo(repoDetails.full_name)
     IN  IF RejectsOwnerRepo(names.owner, names.repo)
           THEN /\ cycles' = [cycles EXCEPT ![c].pc = "done", ![c].metaStatus = 200,
                                            ![c].repoDetails = repoDetails,
                                            ![c].failedAt = "commits",
                                            ![c].failStatus = 400]
                /\ Render(Catch(PageState, 400))
           ELSE /\ cycles' = [cycles EXCEPT ![c].pc = "commits", ![c].metaStatus = 200,
                                            ![c].repoDetails = repoDetails,
                                            ![c].owner = names.owner,
                                            ![c].repo = names.repo]
                /\ Render(PageState)
  /\ UNCHANGED <<impl, repoId, effectDue>>
  /\ UNCHANGED <<ivars, mvars, tvars, lvars, avars, svars, cvars>>

\* fetchData: api.getRepositoryById(repoId) rejects.
MonoMetaFailStep(c) ==
  /\ impl = "mono" /\ cycles[c].pc = "meta"
  /\ \E status \in ErrorStatuses :
       /\ cycles' = [cycles EXCEPT ![c].pc = "done", ![c].metaStatus = status,
                                   ![c].failedAt = "meta", ![c].failStatus = status]
       /\ Render(Catch(PageState, status))
  /\ UNCHANGED <<impl, repoId, effectDue>>
  /\ UNCHANGED <<ivars, mvars, tvars, lvars, avars, svars, cvars>>

\* fetchData: the commits call resolves: setCommits(commitsData), then the
\* pagination loop starts with its first contributors call.
MonoCommitsOkStep(c) ==
  /\ impl = "mono" /\ cycles[c].pc = "commits"
  /\ cycles' = [cycles EXCEPT ![c].pc = "contributors", ![c].loop = LoopStart]
  /\ Render([PageState EXCEPT !.commits = CommitsOf(cycles[c].owner, cycles[c].repo)])
  /\ UNCHANGED <<impl, repoId, effectDue>>
  /\ UNCHANGED <<ivars, mvars, tvars, lvars, avars, svars, cvars>>

\* fetchData: the commits call rejects.
MonoCommitsFailStep(c) ==
  /\ impl = "mono" /\ cycles[c].pc = "commits"
  /\ \E status \in ErrorStatuses :
       /\ cycles' = [cycles EXCEPT ![c].pc = "done", ![c].failedAt = "commits",
                                   ![c].failStatus = status]
       /\ Render(Catch(PageState, status))
  /\ UNCHANGED <<impl, repoId, effectDue>>
  /\ UNCHANGED <<ivars, mvars, tvars, lvars, avars, svars, cvars>>

\* fetchData: a contributors call resolves and the loop body runs; the loop
\* either calls for the next page or ends, and then setRepository,
\* setContributors and (finally) setIsLoading(false) run.
MonoContributorsOkStep(c) ==
  /\ impl = "mono" /\ cycles[c].pc = "contributors"
  /\ LET st == LoopBody(cycles[c].loop,
                        ContributorsPage(cycles[c].owner, cycles[c].repo,
                                         cycles[c].loop.page))
     IN  IF st.hasMore
           THEN /\ cycles' = [cycles EXCEPT ![c].loop = st]
                /\ Render(PageState)
           ELSE /\ cycles' = [cycles EXCEPT ![c].loop = st, ![c].pc = "done"]
                /\ Render([PageState EXCEPT !.repository = cycles[c].repoDetails,
                                            !.contributors = st.allContributors,
                                            !.isLoading = FALSE])
  /\ UNCHANGED <<impl, repoId, effectDue>>
  /\ UNCHANGED <<ivars, mvars, tvars, lvars, avars, svars, cvars>>

\* fetchData: a contributors call rejects.
MonoContributorsFailStep(c) ==
  /\ impl = "mono" /\ cycles[c].pc = "contributors"
  /\ \E status \in ErrorStatuses :
       /\ cycles' = [cycles EXCEPT ![c].pc = "done", ![c].failedAt = "contributors",
                                   ![c].failStatus = status]
       /\ Render(Catch(PageState, status))
  /\ UNCHANGED <<impl, repoId, effectDue>>
  /\ UNCHANGED <<ivars, mvars, tvars, lvars, avars, svars, cvars>>

\* Any cycle whose call is outstanding may be the one that settles next.
PageMetaOk == \E c \in 1..Len(cycles) : PageMetaOkStep(c)
PageMetaFail == \E c \in 1..Len(cycles) : PageMetaFailStep(c)
MonoMetaOk == \E c \in 1..Len(cycles) : MonoMetaOkStep(c)
MonoMetaFail == \E c \in 1..Len(cycles) : MonoMetaFailStep(c)
MonoCommitsOk == \E c \in 1..Len(cycles) : MonoCommitsOkStep(c)
MonoCommitsFail == \E c \in 1..Len(cycles) : MonoCommitsFailStep(c)
MonoContributorsOk == \E c \in 1..Len(cycles) : MonoContributorsOkStep(c)
MonoContributorsFail == \E c \in 1..Len(cycles) : MonoContributorsFailStep(c)
PanelOk == \E call \in childCalls : PanelOkStep(call)
PanelFail == \E call \in childCalls : PanelFailStep(call)

Next ==
  \/ Navigate
  \/ Effect
  \/ PageMetaOk
  \/ PageMetaFail
  \/ MonoMetaOk
  \/ MonoMetaFail
  \/ MonoCommitsOk
  \/ MonoCommitsFail
  \/ MonoContributorsOk
  \/ MonoContributorsFail
  \/ PanelOk
  \/ PanelFail

Spec == Init /\ [][Next]_vars

(***************************************************************************)
(* The contributor pagination loop on its own                              *)
(***************************************************************************)
InitMerge ==
  /\ MergeIdle /\ ImpactIdle /\ PageIdle /\ TimelineIdle /\ LanguageIdle
  /\ ApiIdle /\ SearchIdle /\ ListIdle

\* The call is started without awaiting the one before.
MergeRequestEager ==
  /\ hasMore /\ ~mFailed
  /\ mAwaiting' = TRUE
  /\ mRequests' = Append(mRequests, page)
  /\ UNCHANGED <<allContributors, page, hasMore, mFailed, mReceived>>
  /\ UNCHANGED <<ivars, ovars, tvars, lvars, avars, svars, cvars>>

\* while (hasMore) { ... await api.getRepositoryContributors(owner, repo, perPage, page)
MergeRequest ==
  /\ hasMore /\ ~mAwaiting /\ ~mFailed
  /\ mAwaiting' = TRUE
  /\ mRequests' = Append(mRequests, page)
  /\ UNCHANGED <<allContributors, page, hasMore, mFailed, mReceived>>
  /\ UNCHANGED <<ivars, ovars, tvars, lvars, avars, svars, cvars>>

\* The call resolves with a page and the loop body runs.
MergeResponse ==
  /\ mAwaiting
  /\ \E shape \in PageShapes(page) :
       LET st == LoopBody([allContributors |-> allContributors, page |-> page,
                           hasMore |-> hasMore],
                          PageOf(page, shape[1], shape[2]))
       IN  /\ allContributors' = st.allContributors
           /\ page' = st.page
           /\ hasMore' = st.hasMore
           /\ mReceived' = Append(mReceived, shape)
  /\ mAwaiting' = FALSE
  /\ UNCHANGED <<mFailed, mRequests>>
  /\ UNCHANGED <<ivars, ovars, tvars, lvars, avars, svars, cvars>>

\* The call rejects: the exception leaves the loop.
MergeFail ==
  /\ mAwaiting
  /\ mAwaiting' = FALSE
  /\ mFailed' = TRUE
  /\ UNCHANGED <<allContributors, page, hasMore, mRequests, mReceived>>
  /\ UNCHANGED <<ivars, ovars, tvars, lvars, avars, svars, cvars>>

NextMerge == MergeRequest \/ MergeResponse \/ MergeFail

SpecMerge == InitMerge /\ [][NextMerge]_vars

MergeDone == ~hasMore /\ ~mAwaiting /\ ~mFailed

(***************************************************************************)
(* The UserImpact panel: one getRepositoryCommits call per effect run.     *)
(***************************************************************************)
InitImpact ==
  /\ ApiIdle /\ SearchIdle /\ ListIdle
  /\ MergeIdle
  /\ PageIdle
  /\ TimelineIdle
  /\ LanguageIdle
  /\ uiUpstream \in CommitWindows
  /\ uiCommits = <<>>
  /\ uiIsLoading = TRUE
  /\ uiError = ""
  /\ uiPending = FALSE

\* The effect without setError(null).
UiFetchCommitsKeepError ==
  /\ ~uiPending
  /\ uiIsLoading' = TRUE
  /\ uiPending' = TRUE
  /\ UNCHANGED <<uiCommits, uiUpstream, uiError>>
  /\ UNCHANGED <<mvars, ovars, tvars, lvars, avars, svars, cvars>>

\* useEffect(..., [owner, repo]) up to the await.
UiFetchCommits ==
  /\ ~uiPending
  /\ uiIsLoading' = TRUE
  /\ uiError' = ""
  /\ uiPending' = TRUE
  /\ UNCHANGED <<uiCommits, uiUpstream>>
  /\ UNCHANGED <<mvars, ovars, tvars, lvars, avars, svars, cvars>>

\* The call resolves: setCommits(commitsData); finally setIsLoading(false).
UiCommitsOk ==
  /\ uiPending
  /\ uiCommits' = uiUpstream
  /\ uiIsLoading' = FALSE
  /\ uiPending' = FALSE
  /\ UNCHANGED <<uiError, uiUpstream>>
  /\ UNCHANGED <<mvars, ovars, tvars, lvars, avars, svars, cvars>>

\* The call rejects: setError(err.message); finally setIsLoading(false).
UiCommitsFail ==
  /\ uiPending
  /\ \E status \in ErrorStatuses : uiError' = ErrorMessage(status)
  /\ uiIsLoading' = FALSE
  /\ uiPending' = FALSE
  /\ UNCHANGED <<uiCommits, uiUpstream>>
  /\ UNCHANGED <<mvars, ovars, tvars, lvars, avars, svars, cvars>>

NextImpact == UiFetchCommits \/ UiCommitsOk \/ UiCommitsFail

SpecImpact == InitImpact /\ [][NextImpact]_vars

(***************************************************************************)
(* Claims about the impact aggregator (checked under SpecImpact)           *)
(***************************************************************************)
\* The entry of the Map that processing commits[i] created or incremented
\* (its position in insertion order), 0 when the commit was skipped.
EntryIndexOf(window, i) ==
  LET before == AuthorCounts(SubSeq(window, 1, i - 1))
      after  == AuthorCounts(SubSeq(window, 1, i))
  IN  IF Len(after) > Len(before) THEN Len(after)
      ELSE IF after = before THEN 0
      ELSE CHOOSE e \in 1..Len(after) : after[e].count # before[e].count

\* The identity rule as the specification words it.
SameRegistered(a, b) ==
  \/ a.id # 0 /\ b.id # 0 /\ a.id = b.id
  \/ a.id = 0 /\ b.id = 0 /\ a.login = b.login

SameIdentity(c, d) ==
  \/ c.author.present /\ d.author.present /\ SameRegistered(c.author, d.author)
  \/ ~c.author.present /\ ~d.author.present /\ c.email = d.email

\* C8: two counted commits of the window fall under the same impact entry
\* if and only if both carry a registered author with the same id (login
\* when the id is absent), or both carry no registered author and have the
\* same commit-metadata author email.
C8_IdentityRule ==
  \A i, j \in 1..Len(uiCommits) :
    (i < j /\ EntryIndexOf(uiCommits, i) # 0 /\ EntryIndexOf(uiCommits, j) # 0)
      => ( (EntryIndexOf(uiCommits, i) = EntryIndexOf(uiCommits, j))
           <=> SameIdentity(uiCommits[i], uiCommits[j]) )

Resolvable(c) ==
  IF c.author.present THEN c.author.id # 0 \/ c.author.login # ""
  ELSE c.email # ""

Unattributable(c) == ~c.author.present /\ c.email = ""

RemoveAt(s, i) == SubSeq(s, 1, i - 1) \o SubSeq(s, i + 1, Len(s))

Counters(stats) == [e \in 1..Len(stats) |-> <<stats[e].key, stats[e].commitCount>>]

FirstSeen(window, key) == Min({i \in 1..Len(window) : CommitKey(window[i]) = key})

RECURSIVE ConcatPages(_, _)
ConcatPages(shapes, n) ==
  IF n = 0 THEN <<>>
  ELSE ConcatPages(shapes, n - 1) \o PageOf(n, shapes[n][1], shapes[n][2])

ShortPages == {i \in 1..Len(mReceived) : mReceived[i][1] < 100}

C6_SafetyCeiling ==
  /\ \A i \in 1..Len(mRequests) : mRequests[i] <= 10
  /\ Len(allContributors) <= 1000
  /\ (Len(mReceived) = 10 /\ \A i \in 1..10 : mReceived[i][1] = 100)
       => MergeDone /\ Len(mRequests) = 10 /\ Len(allContributors) = 1000

C6_Witness ==
  /\ MergeDone
  /\ Len(mRequests) = 10
  /\ Len(allContributors) = 1000

\* C7: the merged contributor collection never holds two records with the
\* same identity key.
C7_NoDuplicateIdentity ==
  \A i, j \in 1..Len(allContributors) :
    i # j => allContributors[i].id # allContributors[j].id

(***************************************************************************)
(* Properties of the repository page                                       *)
(***************************************************************************)
\* Every started cycle has settled and no effect is waiting to run.
Settled ==
  /\ route = "repository" /\ ~effectDue
  /\ cycles # <<>>
  /\ \A c \in 1..Len(cycles) : cycles[c].pc = "done"
  /\ childCalls = {}

\* The cycle started for the identifier now shown.
Latest == cycles[Len(cycles)]

\* C1: stale-response guard. When a cycle for identifier A was still in flight
\* as a cycle for a different identifier B started, A's result never
\* overwrites published state: once everything has settled with the page
\* Ready, the repository shown is the one of the latest identifier, and each
\* panel that shows data without an error shows the data of that repository.
C1_StaleResponseGuard ==
  (Settled /\ Latest.id = repoId /\ View(PageState) = "Ready") =>
     /\ repository = RepositoryDetails(repoId)
     /\ \A p \in Panels :
          (PanelsRendered(PageState) /\ panels[p].error = "") =>
             panels[p].data = PanelData(p, UpstreamOwner(repoId), UpstreamName(repoId))

\* C2: all-or-nothing cycle. Ready is published only after the metadata
\* fetch, the commit-window fetch and the whole contributor pagination loop
\* have succeeded, and a cycle whose commit-window fetch or contributor page
\* failed ends in Failed (the page is left with a notification).
C2_AllOrNothing ==
  /\ View(PageState) = "Ready" =>
       IF impl = "mono"
         THEN \E c \in 1..Len(cycles) :
                /\ cycles[c].pc = "done" /\ cycles[c].failedAt = ""
                /\ ~cycles[c].loop.hasMore
                /\ repository = cycles[c].repoDetails
         ELSE \A p \in {"timeline", "impact", "contributors"} :
                ~panels[p].isLoading /\ panels[p].error = ""
  /\ (Len(cycles) = 1 /\ cycles[1].pc = "done"
        /\ cycles[1].failedAt \in {"commits", "contributors"}) =>
       View(PageState) = "Home" /\ toasts = 1

\* C3: outcome classification. A completed cycle ends in NotFound exactly
\* when its metadata request reported 404, in Failed for every other error of
\* that request, and in Ready when no request of the cycle failed; one of the
\* three is reached.  Stated for the first cycle of an activation, before
\* any other cycle has started.
C3_OutcomeClassification ==
  (Len(cycles) = 1 /\ cycles[1].pc = "done" /\ ~effectDue /\ repoId = cycles[1].id) =>
     /\ View(PageState) \in {"NotFound", "Home", "Ready"}
     /\ View(PageState) = "NotFound" <=> cycles[1].metaStatus = 404
     /\ cycles[1].metaStatus \notin {200, 404} => View(PageState) = "Home"
     /\ (cycles[1].metaStatus = 200 /\ cycles[1].failedAt = "") =>
          View(PageState) = "Ready"

\* The (owner, name) of the metadata some cycle received.
FromReceivedMetadata(owner, repo) ==
  \E c \in 1..Len(cycles) :
    /\ cycles[c].metaStatus = 200
    /\ cycles[c].repoDetails = RepositoryDetails(cycles[c].id)
    /\ owner = UpstreamOwner(cycles[c].id)
    /\ repo = UpstreamName(cycles[c].id)

\* C4: request ordering. A commit-window, contributor-page or language
\* request is outstanding only for a cycle whose metadata request has
\* succeeded, and it carries the owner and name of the metadata that cycle
\* received.
C4_RequestOrdering ==
  /\ \A c \in 1..Len(cycles) :
       cycles[c].pc \in {"commits", "contributors"} =>
          /\ cycles[c].metaStatus = 200
          /\ cycles[c].owner = UpstreamOwner(cycles[c].id)
          /\ cycles[c].repo = UpstreamName(cycles[c].id)
  /\ \A call \in childCalls : FromReceivedMetadata(call.owner, call.repo)
  /\ \A c \in 1..Len(cycles) :
       cycles[c].pc = "meta" => cycles[c].owner = <<>> /\ cycles[c].repo = <<>>

\* A language request of the second cycle is outstanding while the commit
\* request of the first cycle's panels has not been answered.
C4_Witness ==
  /\ Len(cycles) = 2 /\ cycles[1].id = 2 /\ cycles[2].id = 5
  /\ [panel |-> "languages", owner |-> UpstreamOwner(5), repo |-> UpstreamName(5)]
       \in childCalls
  /\ [panel |-> "timeline", owner |-> UpstreamOwner(2), repo |-> UpstreamName(2)]
       \in childCalls

(***************************************************************************)
(* CommitTimeline: timelineData                                            *)
(***************************************************************************)
\* An ISO 8601 timestamp as the fields of its text: local date and time and
\* the offset from UTC in minutes ("Z" is 0).  `utc` is the UTC calendar day
\* of the instant, written out by hand; no operator of the program reads it.
Timestamp(y, mo, d, h, mi, sec, off, utc) ==
  [y |-> y, mo |-> mo, d |-> d, h |-> h, mi |-> mi, sec |-> sec, off |-> off,
   utc |-> utc]

Day_2023_09_30 == <<"2", "0", "2", "3", "-", "0", "9", "-", "3", "0">>
Day_2024_01_01 == <<"2", "0", "2", "4", "-", "0", "1", "-", "0", "1">>
Day_2024_01_02 == <<"2", "0", "2", "4", "-", "0", "1", "-", "0", "2">>
Day_2024_01_03 == <<"2", "0", "2", "4", "-", "0", "1", "-", "0", "3">>
Day_2024_02_29 == <<"2", "0", "2", "4", "-", "0", "2", "-", "2", "9">>

\* 2024-01-02T23:59:59Z
T_LastSecond == Timestamp(2024, 1, 2, 23, 59, 59, 0, Day_2024_01_02)
\* 2024-01-03T00:00:01Z
T_FirstSecond == Timestamp(2024, 1, 3, 0, 0, 1, 0, Day_2024_01_03)
\* 2024-01-03T00:30:00+02:00
T_East == Timestamp(2024, 1, 3, 0, 30, 0, 120, Day_2024_01_02)
\* 2023-12-31T23:00:00-05:00
T_West == Timestamp(2023, 12, 31, 23, 0, 0, -300, Day_2024_01_01)
\* 2024-02-29T12:00:00Z
T_Leap == Timestamp(2024, 2, 29, 12, 0, 0, 0, Day_2024_02_29)
\* 2023-09-30T08:00:00Z
T_Autumn == Timestamp(2023, 9, 30, 8, 0, 0, 0, Day_2023_09_30)

\* A commit with commit.committer.date and commit.author.date.
Dated(commit, committerDate, authorDate) ==
  [author |-> commit.author, email |-> commit.email, name |-> commit.name,
   committerDate |-> committerDate, authorDate |-> authorDate]

DatedCommitValues ==
  { Dated(MkCommit(Author(42, "bob", "av42"), "b@x.com", "Bob"), T_LastSecond, T_FirstSecond),
    Dated(MkCommit(NoAuthor, "a@x.com", "Ann"), T_FirstSecond, T_LastSecond),
    Dated(MkCommit(Author(42, "bob", "av42"), "b@x.com", "Bob"), T_East, T_East),
    Dated(MkCommit(NoAuthor, "", "Ann"), T_West, T_Autumn),
    Dated(MkCommit(NoAuthor, "a@x.com", "Ann"), T_Leap, T_West),
    Dated(MkCommit(Author(7, "amy", "av7"), "c@x.com", "Amy"), T_Autumn, T_Leap) }

MaxTimeline == 3

DatedWindows == SeqsUpTo(DatedCommitValues, MaxTimeline)

\* Days since 1970-01-01 of a proleptic Gregorian date.
DaysFromCivil(y, mo, d) ==
  LET yy  == IF mo <= 2 THEN y - 1 ELSE y
      era == yy \div 400
      yoe == yy - era * 400
      mp  == IF mo > 2 THEN mo - 3 ELSE mo + 9
      doy == (153 * mp + 2) \div 5 + d - 1
      doe == yoe * 365 + yoe \div 4 - yoe \div 100 + doy
  IN  era * 146097 + doe - 719468

\* The proleptic Gregorian date <<y, mo, d>> of a day number.
CivilFromDays(days) ==
  LET z   == days + 719468
      era == z \div 146097
      doe == z - era * 146097
      yoe == (doe - doe \div 1460 + doe \div 36524 - doe \div 146096) \div 365
      doy == doe - (365 * yoe + yoe \div 4 - yoe \div 100)
      mp  == (5 * doy + 2) \div 153
      d   == doy - (153 * mp + 2) \div 5 + 1
      mo  == IF mp < 10 THEN mp + 3 ELSE mp - 9
      y   == yoe + era * 400
  IN  <<IF mo <= 2 THEN y + 1 ELSE y, mo, d>>

\* new Date(text): the time value, in seconds since the epoch.
DateParse(t) ==
  DaysFromCivil(t.y, t.mo, t.d) * 86400 + t.h * 3600 + t.mi * 60 + t.sec - t.off * 60

Digits == <<"0", "1", "2", "3", "4", "5", "6", "7", "8", "9">>

Pad2(n) == <<Digits[((n \div 10) % 10) + 1], Digits[(n % 10) + 1]>>

Pad4(n) == Pad2(n \div 100) \o Pad2(n % 100)

\* date.toISOString(): "YYYY-MM-DDTHH:mm:ss.sssZ" of the time value, in UTC.
ToISOString(time) ==
  LET civil == CivilFromDays(time \div 86400)
      secs  == time % 86400
  IN  Pad4(civil[1]) \o <<"-">> \o Pad2(civil[2]) \o <<"-">> \o Pad2(civil[3])
        \o <<"T">> \o Pad2(secs \div 3600) \o <<":">> \o Pad2((secs \div 60) % 60)
        \o <<":">> \o Pad2(secs % 60) \o <<".", "0", "0", "0", "Z">>

\* The same, from the author date.
DateKeyOfAuthorDate(commit) ==
  Split(ToISOString(DateParse(commit.authorDate)), "T")[1]

\* const dateKey = new Date(commit.commit.committer.date).toISOString().split("T")[0]
DateKeyOf(commit) ==
  Split(ToISOString(DateParse(commit.committerDate)), "T")[1]

\* Collation rank of the characters of a dateKey.
CharRank(ch) ==
  IF ch = "-" THEN 0 ELSE 1 + (CHOOSE i \in 1..10 : Digits[i] = ch)

\* a.localeCompare(b) on dateKeys: negative, zero or positive.
RECURSIVE LocaleCompare(_, _)
LocaleCompare(a, b) ==
  IF a = <<>> /\ b = <<>> THEN 0
  ELSE IF a = <<>> THEN -1
  ELSE IF b = <<>> THEN 1
  ELSE IF CharRank(Head(a)) # CharRank(Head(b))
         THEN CharRank(Head(a)) - CharRank(Head(b))
  ELSE LocaleCompare(Tail(a), Tail(b))

\* dateMap.set(dateKey, 1): the count is overwritten, not incremented.
BucketCommitOverwrite(dateMap, commit) ==
  LET dateKey == DateKeyOf(commit)
      hit == {i \in 1..Len(dateMap) : dateMap[i].date = dateKey}
  IN  IF hit = {} THEN Append(dateMap, [date |-> dateKey, commits |-> 1])
      ELSE dateMap

\* One step of commits.forEach: dateMap.set(dateKey, (dateMap.get(dateKey) || 0) + 1),
\* the Map as a sequence in insertion order.
BucketCommit(dateMap, commit) ==
  LET dateKey == DateKeyOf(commit)
      hit == {i \in 1..Len(dateMap) : dateMap[i].date = dateKey}
  IN  IF hit = {} THEN Append(dateMap, [date |-> dateKey, commits |-> 1])
      ELSE LET i == CHOOSE j \in hit : TRUE
           IN  [dateMap EXCEPT ![i].commits = @ + 1]

RECURSIVE DateMap(_)
DateMap(window) ==
  IF window = <<>> THEN <<>>
  ELSE BucketCommit(DateMap(SubSeq(window, 1, Len(window) - 1)), window[Len(window)])

\* Array.prototype.sort is stable: x goes after the elements that do not
\* compare greater than it.
InsertByDate(sorted, x) ==
  LET after == {i \in 1..Len(sorted) : LocaleCompare(sorted[i].date, x.date) <= 0}
      k == IF after = {} THEN 0 ELSE CHOOSE i \in after : \A j \in after : j <= i
  IN  SubSeq(sorted, 1, k) \o <<x>> \o SubSeq(sorted, k + 1, Len(sorted))

\* The entries left in insertion order.
SortByDateSkipped(s) == s

\* .sort((a, b) => a.date.localeCompare(b.date))
RECURSIVE SortByDate(_)
SortByDate(s) ==
  IF s = <<>> THEN <<>>
  ELSE InsertByDate(SortByDate(SubSeq(s, 1, Len(s) - 1)), s[Len(s)])

\* The timelineData memo.
timelineData(window) ==
  IF Len(window) = 0 THEN <<>> ELSE SortByDate(DateMap(window))

(***************************************************************************)
(* The CommitTimeline and UserImpact panels, mounted side by side for one  *)
(* (owner, repo): each makes its own getRepositoryCommits call.            *)
(***************************************************************************)
InitCommits ==
  /\ ApiIdle /\ SearchIdle /\ ListIdle
  /\ MergeIdle
  /\ PageIdle
  /\ LanguageIdle
  /\ TimelineIdle
  /\ uiUpstream \in DatedWindows
  /\ uiCommits = <<>>
  /\ uiIsLoading = TRUE
  /\ uiError = ""
  /\ uiPending = FALSE

\* CommitTimeline: useEffect(..., [owner, repo]) up to the await.
TlFetchCommits ==
  /\ tlIsLoading /\ ~tlPending
  /\ tlIsLoading' = TRUE
  /\ tlError' = ""
  /\ tlPending' = TRUE
  /\ UNCHANGED tlCommits
  /\ UNCHANGED <<ivars, mvars, ovars, lvars, avars, svars, cvars>>

\* The call resolves: setCommits(data); finally setIsLoading(false).
TlCommitsOk ==
  /\ tlPending
  /\ tlCommits' = uiUpstream
  /\ tlIsLoading' = FALSE
  /\ tlPending' = FALSE
  /\ UNCHANGED tlError
  /\ UNCHANGED <<ivars, mvars, ovars, lvars, avars, svars, cvars>>

\* The call rejects: setError(err.message); finally setIsLoading(false).
TlCommitsFail ==
  /\ tlPending
  /\ \E status \in ErrorStatuses : tlError' = ErrorMessage(status)
  /\ tlIsLoading' = FALSE
  /\ tlPending' = FALSE
  /\ UNCHANGED tlCommits
  /\ UNCHANGED <<ivars, mvars, ovars, lvars, avars, svars, cvars>>

\* A commit is pushed to the repository: the data source answers later
\* calls with the newer window (newest first).
UpstreamPush ==
  /\ Len(uiUpstream) < MaxTimeline
  /\ \E c \in DatedCommitValues : uiUpstream' = <<c>> \o uiUpstream
  /\ UNCHANGED <<uiCommits, uiIsLoading, uiError, uiPending>>
  /\ UNCHANGED <<mvars, ovars, tvars, lvars, avars, svars, cvars>>

NextCommits ==
  \/ TlFetchCommits
  \/ TlCommitsOk
  \/ TlCommitsFail
  \/ UiFetchCommits
  \/ UiCommitsOk
  \/ UiCommitsFail
  \/ UpstreamPush

SpecCommits == InitCommits /\ [][NextCommits]_vars

(***************************************************************************)
(* Properties of the timeline                                              *)
(***************************************************************************)
TimelineShown == ~tlIsLoading /\ tlError = ""

BucketCounts(tl) == [b \in 1..Len(tl) |-> tl[b].commits]

\* C11: timeline conservation.  The commit counts of the timeline buckets
\* sum to the number of commits in the window.
C11_TimelineConservation ==
  TimelineShown =>
    SumSeq(BucketCounts(timelineData(tlCommits))) = Len(tlCommits)

\* Three commits are shown, two of them committed on the same UTC day.
C11_Witness ==
  /\ TimelineShown
  /\ Len(tlCommits) = 3
  /\ Len(timelineData(tlCommits)) = 2

\* Lexicographic order of two dateKeys of the same length.
KeyBefore(a, b) ==
  \E i \in 1..Len(a) :
    /\ \A j \in 1..(i - 1) : a[j] = b[j]
    /\ CharRank(a[i]) < CharRank(b[i])

\* C12: timeline bucketing.  There is exactly one bucket per distinct UTC
\* calendar day of the committer timestamps, its count is the number of
\* commits committed on that day, and the buckets are in strictly ascending
\* dateKey order; the author timestamp plays no part.
C12_TimelineBucketing ==
  TimelineShown =>
    LET tl == timelineData(tlCommits)
        days == {tlCommits[i].committerDate.utc : i \in 1..Len(tlCommits)}
    IN  /\ {tl[b].date : b \in 1..Len(tl)} = days
        /\ Len(tl) = Cardinality(days)
        /\ \A b \in 1..Len(tl) :
             tl[b].commits =
               Cardinality({i \in 1..Len(tlCommits) :
                              tlCommits[i].committerDate.utc = tl[b].date})
        /\ \A b \in 1..(Len(tl) - 1) : KeyBefore(tl[b].date, tl[b + 1].date)

\* The window holds a commit of 2024-01-03T00:00:01Z before one of
\* 2024-01-02T23:59:59Z, whose author dates are the other way round, and they
\* are shown as the buckets 2024-01-02 and 2024-01-03, in this order.
C12_Witness ==
  /\ TimelineShown
  /\ Len(tlCommits) = 2
  /\ tlCommits[1].committerDate = T_FirstSecond /\ tlCommits[1].authorDate = T_LastSecond
  /\ tlCommits[2].committerDate = T_LastSecond /\ tlCommits[2].authorDate = T_FirstSecond
  /\ timelineData(tlCommits) = << [date |-> Day_2024_01_02, commits |-> 1],
                                  [date |-> Day_2024_01_03, commits |-> 1] >>

\* C14: same commit window.  Whenever the timeline and the impact ranking
\* are both shown they are derived from one fetched commit sequence: the
\* bucket counts sum to the denominator of the impact percentages.
C14_SameCommitWindow ==
  (TimelineShown /\ ~uiIsLoading /\ uiError = "") =>
     /\ tlCommits = uiCommits
     /\ SumSeq(BucketCounts(timelineData(tlCommits))) = TotalCommits(uiCommits)

(***************************************************************************)
(* LanguageDistribution: languageData                                      *)
(***************************************************************************)
\* Language names, in the key order of the maps below.
LanguageNames == <<"TypeScript", "CSS", "Go", "Rust", "C", "Shell", "HTML", "Lua">>

ByteValues == {0, 1984, 2004}

MaxLanguages == 5

\* RepositoryLanguages objects ({ [language]: bytes }) as their entries in
\* key order.
\* Maps with byte counts on both sides of 1024 * 1024.
BoundaryMaps ==
  { << <<"TypeScript", 1048575>> >>,
    << <<"TypeScript", 1048576>> >>,
    << <<"TypeScript", 1048575>>, <<"CSS", 1048576>> >>,
    << <<"TypeScript", 1048576>>, <<"CSS", 1048575>> >>,
    << <<"TypeScript", 1048577>>, <<"CSS", 1984>> >>,
    << <<"TypeScript", 1023>>, <<"CSS", 1024>>, <<"Go", 5>> >> }

LanguageMaps ==
  UNION {{[i \in 1..k |-> <<LanguageNames[i], f[i]>>] : f \in [1..k -> ByteValues]} :
           k \in 0..MaxLanguages}
    \cup BoundaryMaps

\* ((bytes / totalBytes) * 100).toFixed(1): "NaN" for 0 / 0, else the nearest
\* number of tenths (the larger one when two are equally near), computed on
\* the exact quotient.
ToFixed1(bytes, totalBytes) ==
  IF totalBytes = 0 THEN [nan |-> TRUE, tenths |-> 0]
  ELSE [nan |-> FALSE, tenths |-> (2000 * bytes + totalBytes) \div (2 * totalBytes)]

\* Array.prototype.sort is stable: x goes after the elements whose value is
\* not smaller.
InsertByValue(sorted, x) ==
  LET after == {i \in 1..Len(sorted) : sorted[i].value >= x.value}
      k == IF after = {} THEN 0 ELSE CHOOSE i \in after : \A j \in after : j <= i
  IN  SubSeq(sorted, 1, k) \o <<x>> \o SubSeq(sorted, k + 1, Len(sorted))

\* .sort((a, b) => b.value - a.value)
RECURSIVE SortByValue(_)
SortByValue(s) ==
  IF s = <<>> THEN <<>>
  ELSE InsertByValue(SortByValue(SubSeq(s, 1, Len(s) - 1)), s[Len(s)])

\* Object.values(languages).reduce((sum, bytes) => sum + bytes, 0)
TotalBytes(langs) == SumSeq([i \in 1..Len(langs) |-> langs[i][2]])

\* The languageData memo.
languageData(langs) ==
  IF Len(langs) = 0 THEN <<>>
  ELSE LET totalBytes == TotalBytes(langs)
       IN  SortByValue([i \in 1..Len(langs) |->
                          [name       |-> langs[i][1],
                           value      |-> langs[i][2],
                           percentage |-> ToFixed1(langs[i][2], totalBytes)]])

InitLanguage ==
  /\ ApiIdle /\ SearchIdle /\ ListIdle
  /\ MergeIdle
  /\ PageIdle
  /\ ImpactIdle
  /\ TimelineIdle
  /\ ldUpstream \in LanguageMaps
  /\ languages = <<>>
  /\ ldIsLoading = TRUE
  /\ ldError = ""
  /\ ldPending = FALSE

\* useEffect(..., [owner, repo]) up to the await.
LdFetchLanguages ==
  /\ ~ldPending
  /\ ldIsLoading' = TRUE
  /\ ldError' = ""
  /\ ldPending' = TRUE
  /\ UNCHANGED <<languages, ldUpstream>>
  /\ UNCHANGED <<ivars, mvars, ovars, tvars, avars, svars, cvars>>

\* The call resolves: setLanguages(data); finally setIsLoading(false).
LdLanguagesOk ==
  /\ ldPending
  /\ languages' = ldUpstream
  /\ ldIsLoading' = FALSE
  /\ ldPending' = FALSE
  /\ UNCHANGED <<ldError, ldUpstream>>
  /\ UNCHANGED <<ivars, mvars, ovars, tvars, avars, svars, cvars>>

\* The call rejects: setError(err.message); finally setIsLoading(false).
LdLanguagesFail ==
  /\ ldPending
  /\ \E status \in ErrorStatuses : ldError' = ErrorMessage(status)
  /\ ldIsLoading' = FALSE
  /\ ldPending' = FALSE
  /\ UNCHANGED <<languages, ldUpstream>>
  /\ UNCHANGED <<ivars, mvars, ovars, tvars, avars, svars, cvars>>

NextLanguage == LdFetchLanguages \/ LdLanguagesOk \/ LdLanguagesFail

SpecLanguage == InitLanguage /\ [][NextLanguage]_vars

(***************************************************************************)
(* Properties of the language shares                                       *)
(***************************************************************************)
LanguagesLoaded == ~ldIsLoading /\ ldError = ""

\* C13: zero guard.  For a language map whose byte counts total 0 (the empty
\* map or a map of zeros) the normalizer yields the empty sequence and no
\* share is the result of a division by zero.
C13_ZeroGuard ==
  (LanguagesLoaded /\ TotalBytes(languages) = 0) =>
     /\ languageData(languages) = <<>>
     /\ \A i \in 1..Len(languageData(languages)) :
          ~languageData(languages)[i].percentage.nan

Abs(n) == IF n < 0 THEN -n ELSE n

\* C20: language percentages.  For a language map with total bytes > 0 each
\* share is bytes / totalBytes * 100 to the nearest tenth, and the shares
\* sum to 100.0 within 0.1.
C20_LanguagePercentages ==
  (LanguagesLoaded /\ TotalBytes(languages) > 0) =>
     LET shares == languageData(languages)
         total  == TotalBytes(languages)
     IN  /\ \A i \in 1..Len(shares) :
              /\ ~shares[i].percentage.nan
              /\ 2 * Abs(shares[i].percentage.tenths * total - 1000 * shares[i].value)
                   <= total
         /\ Abs(SumSeq([i \in 1..Len(shares) |-> shares[i].percentage.tenths]) - 1000)
              <= 1

(***************************************************************************)
(* Properties of the identity resolution                                   *)
(***************************************************************************)
\* C15: every commit of the window resolves to exactly one identity,
\* registered or anonymous: it is counted under one impact entry, and that
\* entry is a registered one exactly when the commit carries a registered
\* author.  A commit with neither a registered author nor a usable email is
\* the unattributable commit of the identity resolver and is left aside.
C15_ExactlyOneIdentity ==
  ~uiIsLoading =>
    \A i \in 1..Len(uiCommits) :
      ~Unattributable(uiCommits[i]) =>
         /\ EntryIndexOf(uiCommits, i) # 0
         /\ AuthorCounts(uiCommits)[EntryIndexOf(uiCommits, i)].author.present
              = uiCommits[i].author.present

(***************************************************************************)
(* Further properties of the repository page and of the contributor loop   *)
(***************************************************************************)
\* The cycles that end in this step with an error other than 404.
EndingFailed ==
  {c \in 1..Len(cycles) :
     /\ cycles[c].pc # "done" /\ cycles'[c].pc = "done"
     /\ cycles'[c].failStatus \notin {200, 404}}

\* The effect finds an invalid identifier in this step.
InvalidIdStep == effectDue /\ ~effectDue' /\ repoId = 0

\* C16: terminal failure states.  A cycle that has ended issues no further
\* request; a new cycle starts only for an identifier other than the one of
\* the cycle before; once the latest cycle has ended in NotFound or Failed no
\* panel request is started; a cycle ending in Failed raises exactly one
\* notification and a cycle ending in NotFound none.
C16_TerminalFailure ==
  [][ /\ \A c \in 1..Len(cycles) : cycles[c].pc = "done" => cycles'[c] = cycles[c]
      /\ Len(cycles') > Len(cycles) =>
           /\ Len(cycles') = Len(cycles) + 1
           /\ cycles # <<>> => cycles'[Len(cycles')].id # cycles[Len(cycles)].id
      /\ (cycles # <<>> /\ Len(cycles') = Len(cycles)
            /\ cycles[Len(cycles)].pc = "done" /\ cycles[Len(cycles)].failStatus # 200) =>
           childCalls' \subseteq childCalls
      /\ toasts' = toasts + Cardinality(EndingFailed) + (IF InvalidIdStep THEN 1 ELSE 0)
    ]_vars

\* One cycle has ended in NotFound and a later one in Failed: one
\* notification has been raised and the page has been left.
C16_Witness ==
  /\ Len(cycles) = 2
  /\ cycles[1].pc = "done" /\ cycles[1].failStatus = 404
  /\ cycles[2].pc = "done" /\ cycles[2].failStatus = 500
  /\ toasts = 1 /\ route = "home"

\* The data-source operation a panel calls.
PanelEndpoint(p) ==
  CASE p = "timeline"     -> "getRepositoryCommits"
    [] p = "impact"       -> "getRepositoryCommits"
    [] p = "contributors" -> "getRepositoryContributors"
    [] p = "languages"    -> "getRepositoryLanguages"

\* C17: reads happen once.  Within a cycle the commit-window request and the
\* language request are issued at most once: no two outstanding panel
\* requests go to the same operation for the same (owner, repo), unless they
\* are contributor pages.
C17_ReadsOnce ==
  \A a, b \in childCalls :
    (PanelEndpoint(a.panel) = PanelEndpoint(b.panel)
       /\ PanelEndpoint(a.panel) # "getRepositoryContributors"
       /\ a.owner = b.owner /\ a.repo = b.repo)
      => a = b

\* C18: contributor-merge failure reporting.  When a page request fails after
\* earlier pages succeeded, the cycle is not Ready and the failure comes with
\* the partial collection: the pages gathered so far are the published
\* contributors.
C18_MergeFailureReporting ==
  (impl = "mono" /\ Len(cycles) = 1 /\ cycles[1].pc = "done"
     /\ cycles[1].failedAt = "contributors") =>
       /\ View(PageState) # "Ready"
       /\ contributors = cycles[1].loop.allContributors

\* C19: contributor pages are requested strictly one after the other: the
\* requests are for pages 1, 2, 3, ... in this order, at most one of them is
\* unanswered, and page N+1 is requested only after page N has arrived with
\* 100 records.
C19_SequentialPages ==
  /\ \A i \in 1..Len(mRequests) : mRequests[i] = i
  /\ Len(mRequests) = Len(mReceived) + (IF mAwaiting \/ mFailed THEN 1 ELSE 0)
  /\ \A i \in 2..Len(mRequests) :
       /\ i - 1 <= Len(mReceived)
       /\ mReceived[i - 1][1] = 100

\* Page 3 has been requested and not answered; pages 1 and 2 arrived full.
C19_Witness ==
  /\ mRequests = <<1, 2, 3>>
  /\ mAwaiting
  /\ Len(mReceived) = 2

(***************************************************************************)
(* Further properties of the impact aggregator (checked under SpecImpact)  *)
(***************************************************************************)
\* C21: display-field snapshot.  The display fields of an impact entry are
\* those of the first commit of the window that resolved to the entry's key:
\* the avatar (and with it the profile link) of its registered author, or its
\* commit author name and email when it has none.  Later commits of the same
\* key change the count only.
C21_DisplaySnapshot ==
  LET stats == contributorStats(uiCommits)
  IN  \A e \in 1..Len(stats) :
        LET first == uiCommits[FirstSeen(uiCommits, stats[e].key)]
        IN  /\ stats[e].isAnonymous = ~first.author.present
            /\ stats[e].avatar_url = first.author.avatar_url
            /\ stats[e].isAnonymous =>
                 stats[e].name = first.name /\ stats[e].login = first.email
            /\ ~stats[e].isAnonymous =>
                 stats[e].name = first.author.login /\ stats[e].login = first.author.login

\* A loaded window in which one registered identity was seen with two
\* avatars and one anonymous identity with two names.
C21_Witness ==
  LET stats == contributorStats(uiCommits)
  IN  /\ ~uiIsLoading
      /\ Len(uiCommits) = 4
      /\ Len(stats) = 2
      /\ \E i, j \in 1..4 :
           /\ i < j /\ CommitKey(uiCommits[i]) = CommitKey(uiCommits[j])
           /\ uiCommits[i].author.present
           /\ uiCommits[i].author.avatar_url # uiCommits[j].author.avatar_url
      /\ \E i, j \in 1..4 :
           /\ i < j /\ CommitKey(uiCommits[i]) = CommitKey(uiCommits[j])
           /\ ~uiCommits[i].author.present
           /\ uiCommits[i].name # uiCommits[j].name

\* C25: identity key spaces are disjoint.  A commit carrying a registered
\* author and a commit carrying none are never counted under the same impact
\* entry, whatever their id, login and email.
C25_DisjointKeySpaces ==
  ~uiIsLoading =>
    \A i, j \in 1..Len(uiCommits) :
      (EntryIndexOf(uiCommits, i) # 0
         /\ EntryIndexOf(uiCommits, i) = EntryIndexOf(uiCommits, j))
        => uiCommits[i].author.present = uiCommits[j].author.present

(***************************************************************************)
(* What the two commit panels render                                       *)
(***************************************************************************)
\* UserImpact: isLoading ? spinner : error ? message :
\* contributorStats.length === 0 ? "No data available" : the list.
UserImpactView ==
  IF uiIsLoading THEN "loading"
  ELSE IF uiError # "" THEN "error"
  ELSE IF Len(contributorStats(uiCommits)) = 0 THEN "empty"
  ELSE "list"

\* CommitTimeline: isLoading ? spinner : error ? message :
\* timelineData.length === 0 ? "No timeline data available" : the chart.
CommitTimelineView ==
  IF tlIsLoading THEN "loading"
  ELSE IF tlError # "" THEN "error"
  ELSE IF Len(timelineData(tlCommits)) = 0 THEN "empty"
  ELSE "chart"

\* C22: empty commit window.  When a commit request is answered with a
\* window of zero commits, the impact aggregator yields the empty sequence
\* and so does the timeline bucketizer, and neither panel shows an error:
\* each shows its "no data" line.
C22_EmptyWindow ==
  [][ /\ (UiCommitsOk /\ uiCommits' = <<>>) =>
           /\ contributorStats(uiCommits') = <<>>
           /\ UserImpactView' = "empty"
      /\ (TlCommitsOk /\ tlCommits' = <<>>) =>
           /\ timelineData(tlCommits') = <<>>
           /\ CommitTimelineView' = "empty"
    ]_vars

\* Both panels have been answered with the empty window, without error,
\* and both show their "no data" line.
C22_Witness ==
  /\ uiUpstream = <<>>
  /\ ~uiIsLoading /\ ~uiPending /\ uiError = "" /\ uiCommits = <<>>
  /\ ~tlIsLoading /\ ~tlPending /\ tlError = "" /\ tlCommits = <<>>
  /\ UserImpactView = "empty" /\ CommitTimelineView = "empty"

(***************************************************************************)
(* LanguageDistribution: the size shown next to each language              *)
(***************************************************************************)
\* (numerator / denominator).toFixed(2) as a number of hundredths: the
\* nearest one, the larger when two are equally near.  Both denominators
\* used below are powers of two, so the quotient is exact.
ToFixed2(numerator, denominator) ==
  (200 * numerator + denominator) \div (2 * denominator)

\* The size with MB chosen only above 1024 * 1024.
SizeAboveOnly(bytes) ==
  IF bytes > 1024 * 1024
    THEN [unit |-> "MB", hundredths |-> ToFixed2(bytes, 1024 * 1024)]
    ELSE [unit |-> "KB", hundredths |-> ToFixed2(bytes, 1024)]

\* const size = bytes >= 1024 * 1024 ? `${mb} MB` : `${kb} KB`
Size(bytes) ==
  IF bytes >= 1024 * 1024
    THEN [unit |-> "MB", hundredths |-> ToFixed2(bytes, 1024 * 1024)]
    ELSE [unit |-> "KB", hundredths |-> ToFixed2(bytes, 1024)]

\* The sizes of the language list, in display order.
LanguageSizes(langs) ==
  LET data == languageData(langs)
  IN  [i \in 1..Len(data) |-> Size(data[i].value)]

\* C23: human-readable size unit.  Every language of the loaded list is
\* shown in MB when its byte count is at least 1,048,576 and in KB
\* otherwise, so that 1,048,575 reads "1024.00 KB" and 1,048,576 reads
\* "1.00 MB".
C23_SizeUnit ==
  LanguagesLoaded =>
    LET data  == languageData(languages)
        sizes == LanguageSizes(languages)
    IN  \A i \in 1..Len(data) :
          /\ sizes[i].unit = (IF data[i].value < 1048576 THEN "KB" ELSE "MB")
          /\ data[i].value = 1048575 =>
               sizes[i] = [unit |-> "KB", hundredths |-> 102400]
          /\ data[i].value = 1048576 =>
               sizes[i] = [unit |-> "MB", hundredths |-> 100]

\* The loaded list shows one language of 1,048,576 bytes above one of
\* 1,048,575 bytes.
C23_Witness ==
  /\ LanguagesLoaded
  /\ Len(languageData(languages)) = 2
  /\ languageData(languages)[1].value = 1048576
  /\ languageData(languages)[2].value = 1048575
  /\ LanguageSizes(languages) = << [unit |-> "MB", hundredths |-> 100],
                                   [unit |-> "KB", hundredths |-> 102400] >>

(***************************************************************************)
(* Further properties of the repository page (checked under Spec)          *)
(***************************************************************************)
\* The latest cycle ends in this step, every earlier cycle had ended before
\* it started (the loader set by its start is still up), and the identifier
\* has not changed since.
LatestEndsAlone ==
  /\ cycles # <<>> /\ ~effectDue /\ isLoading
  /\ cycles[Len(cycles)].id = repoId
  /\ cycles[Len(cycles)].pc # "done" /\ cycles'[Len(cycles)].pc = "done"
  /\ \A c \in 1..(Len(cycles) - 1) : cycles[c].pc = "done"

\* C24: no leakage between cycles.  When a cycle that ran after all earlier
\* ones ends, what the page shows follows from its outcome alone: Ready
\* with the repository it fetched when it succeeded, the 404 view when it
\* ended in NotFound, and the home route when it failed; in the last two
\* cases no repository of an earlier cycle is shown.
C24_NoLeakage ==
  [][ LatestEndsAlone =>
        LET last == cycles'[Len(cycles)]
        IN  /\ last.failStatus = 200 =>
                 View(PageState') = "Ready" /\ repository' = last.repoDetails
            /\ last.failStatus = 404 => View(PageState') = "NotFound"
            /\ last.failStatus \notin {200, 404} => View(PageState') = "Home"
    ]_vars

(***************************************************************************)
(* The repository page when every call is answered                         *)
(***************************************************************************)
\* The outstanding call of cycle c resolves or rejects.
CycleReturns(c) ==
  /\ c \in 1..Len(cycles)
  /\ \/ PageMetaOkStep(c) \/ PageMetaFailStep(c)
     \/ MonoMetaOkStep(c) \/ MonoMetaFailStep(c)
     \/ MonoCommitsOkStep(c) \/ MonoCommitsFailStep(c)
     \/ MonoContributorsOkStep(c) \/ MonoContributorsFailStep(c)

\* React runs a pending effect after the render that scheduled it, and every
\* data-source call is eventually answered: none hangs.
Fairness ==
  /\ WF_vars(Effect)
  /\ \A c \in 1..MaxCycles : WF_vars(CycleReturns(c))

\* The steps of the page itself.  The calls of the panels are left
\* outstanding: their answers write panel state only, and neither the
\* page's loader nor its fetch cycle waits for them.
NextAnswered ==
  \/ Navigate
  \/ Effect
  \/ PageMetaOk
  \/ PageMetaFail
  \/ MonoMetaOk
  \/ MonoMetaFail
  \/ MonoCommitsOk
  \/ MonoCommitsFail
  \/ MonoContributorsOk
  \/ MonoContributorsFail

SpecAnswered == Init /\ [][NextAnswered]_vars /\ Fairness

\* C26: cycle liveness.  When no data-source call hangs, every activation
\* leaves the loading state: from some moment on every fetch cycle that was
\* started has come to its end, no effect is left to run, and the page shows
\* the repository view, the 404 view or, after a failure or an invalid
\* identifier, the home route.  (A cycle that has ended stays ended, so this
\* is the same as each cycle eventually ending.)
C26_CycleLiveness ==
  <>[](/\ \A c \in 1..Len(cycles) : cycles[c].pc = "done"
       /\ effectDue => route = "home"
       /\ View(PageState) \in {"Ready", "NotFound", "Home"})

\* Two cycles have run to their end, the first with three contributor
\* pages, and the page shows the repository of the second.
C26_Witness ==
  /\ impl = "mono"
  /\ Len(cycles) = 2
  /\ cycles[1].pc = "done" /\ cycles[1].failStatus = 200 /\ cycles[1].loop.page >= 2
  /\ cycles[2].pc = "done" /\ cycles[2].failStatus = 200
  /\ View(PageState) = "Ready"

(***************************************************************************)
(* The API client on its own: calls are made one after the other           *)
(***************************************************************************)
MaxRequests == 2

InitApi ==
  /\ MergeIdle /\ ImpactIdle /\ PageIdle /\ TimelineIdle /\ LanguageIdle
  /\ ApiIdle /\ SearchIdle /\ ListIdle

\* An operation is called and its guard throws: the promise is rejected
\* before fetchApi is reached.
ApiRefuse ==
  /\ apiState # "fetching"
  /\ \E call \in Calls :
       /\ Validation(call)
       /\ apiCall' = call
       /\ apiOutcome' = ValidationError(call)
  /\ apiState' = "settled"
  /\ apiResponse' = NoResponse
  /\ UNCHANGED apiRequests
  /\ UNCHANGED <<ivars, mvars, ovars, tvars, lvars, svars, cvars>>

\* An operation is called, its guard passes, and fetchApi calls fetch(url).
ApiRequest ==
  /\ apiState # "fetching"
  /\ apiRequests < MaxRequests
  /\ \E call \in Calls :
       /\ ~Validation(call)
       /\ apiCall' = call
  /\ apiState' = "fetching"
  /\ apiRequests' = apiRequests + 1
  /\ apiResponse' = NoResponse
  /\ apiOutcome' = NoOutcome
  /\ UNCHANGED <<ivars, mvars, ovars, tvars, lvars, svars, cvars>>

\* The network answers (or fails) and fetchApi returns or throws.
ApiAnswer ==
  /\ apiState = "fetching"
  /\ \E response \in Responses :
       /\ apiResponse' = response
       /\ apiOutcome' = fetchApi(response)
  /\ apiState' = "settled"
  /\ UNCHANGED <<apiCall, apiRequests>>
  /\ UNCHANGED <<ivars, mvars, ovars, tvars, lvars, svars, cvars>>

NextApi == ApiRefuse \/ ApiRequest \/ ApiAnswer

SpecApi == InitApi /\ [][NextApi]_vars

\* C27: error normalisation in the API client.  Every failure of fetchApi
\* is an ApiError; a response with a non-ok status is raised as an ApiError
\* carrying exactly that status; a transport failure is raised as an
\* ApiError with status 0.
C27_ErrorNormalisation ==
  (apiState = "settled" /\ apiResponse # NoResponse) =>
     /\ apiOutcome.kind \in {"value", "ApiError"}
     /\ apiResponse.transport = "failed" =>
          apiOutcome.kind = "ApiError" /\ apiOutcome.status = 0
     /\ (apiResponse.transport = "answered" /\ ~Ok(apiResponse.status)) =>
          apiOutcome.kind = "ApiError" /\ apiOutcome.status = apiResponse.status

\* The arguments the operations are to refuse: a blank or whitespace-only
\* query, a falsy id, a blank or whitespace-only owner or repo.
OnlyWhitespace(s) == \A i \in 1..Len(s) : s[i] \in {" ", "\t", "\n"}

InvalidArguments(call) ==
  \/ call.op = "searchRepositories" /\ OnlyWhitespace(call.s1)
  \/ call.op = "getRepositoryById" /\ call.id = 0
  \/ call.op \in {"getRepositoryContributors", "getRepositoryCommits",
                  "getRepositoryDetails", "getRepositoryIssues"}
       /\ (OnlyWhitespace(call.s1) \/ OnlyWhitespace(call.s2))

\* C30: client-side parameter validation.  A call with such arguments
\* settles at once as an ApiError with status 400 and issues no network
\* request; a call issues a request only with valid arguments.
C30_ParameterValidation ==
  /\ (apiState = "settled" /\ InvalidArguments(apiCall)) =>
        /\ apiOutcome.kind = "ApiError" /\ apiOutcome.status = 400
        /\ apiResponse = NoResponse
  /\ apiState = "fetching" => ~InvalidArguments(apiCall)
  /\ apiResponse # NoResponse => ~InvalidArguments(apiCall)

\* After two requests went out, a call with a whitespace-only repo has been
\* refused with status 400.
C30_Witness ==
  /\ apiState = "settled"
  /\ apiRequests = 2
  /\ apiCall = MkCall("getRepositoryCommits", <<"a">>, <<" ", "\t", "\n">>, 0)
  /\ apiOutcome = ApiError("Owner and repo parameters are required", 400)

(***************************************************************************)
(* app/page.tsx: the search page (Home)                                    *)
(***************************************************************************)
\* const [perPage] = useState(10)
hmPerPage == 10

\* What the user can type.
Queries == { <<>>, <<" ">>, <<"r">>, <<"r", "x">> }

\* What a search can be answered with: the items of the page (a missing
\* `items` member reads as no items) and total_count.
SearchAnswers ==
  {[items |-> [i \in 1..n |-> i], total_count |-> t] :
     n \in {0, 1, hmPerPage}, t \in {0, 1, 25}}

MaxToasts == 3

\* Math.ceil(totalCount / perPage)
CeilDiv(n, d) == (n + d - 1) \div d

\* The controls that are rendered and enabled.
InputEnabled == ~hmIsLoading
ClearShown == ~hmIsLoading /\ searchQuery # <<>>
SearchEnabled == ~hmIsLoading
PaginationShown == ~hmIsLoading /\ Len(repositories) > 0 /\ totalCount > hmPerPage
PreviousEnabled == PaginationShown /\ ~(hmCurrentPage = 1 \/ hmIsLoading)
NextEnabled ==
  PaginationShown /\ ~(hmCurrentPage >= CeilDiv(totalCount, hmPerPage) \/ hmIsLoading)

\* <AnimatePresence mode="wait"> keeps a child that left the tree mounted,
\* as the element of its last render, until its exit animation (0.4 s for
\* the results block) has run: its buttons keep the props and handlers of
\* that render.
NoExiting == [shown |-> FALSE, currentPage |-> 1, totalCount |-> 0]

ResultsShown == ~hmIsLoading /\ Len(repositories) > 0

\* handleSearch(page) up to its await.
HandleSearch(p) ==
  /\ hmToasts + Len(hmOutstanding) < MaxToasts
  /\ IF IsBlank(searchQuery)
       THEN /\ hmToasts' = hmToasts + 1
            /\ UNCHANGED <<hmIsLoading, hmCurrentPage, hmOutstanding, hmExiting>>
       ELSE /\ hmIsLoading' = TRUE
            /\ hmCurrentPage' = p
            /\ hmOutstanding' = Append(hmOutstanding, [query |-> searchQuery, page |-> p])
            /\ hmExiting' = IF ResultsShown
                              THEN [shown |-> TRUE, currentPage |-> hmCurrentPage,
                                    totalCount |-> totalCount]
                              ELSE hmExiting
            /\ UNCHANGED hmToasts
  /\ UNCHANGED <<searchQuery, repositories, totalCount, hmLast>>
  /\ UNCHANGED <<ivars, mvars, ovars, tvars, lvars, avars, cvars>>

InitSearch ==
  /\ MergeIdle /\ ImpactIdle /\ PageIdle /\ TimelineIdle /\ LanguageIdle
  /\ ApiIdle /\ SearchIdle /\ ListIdle

\* onChange={(e) => setSearchQuery(e.target.value)} of the input.
TypeQuery ==
  /\ InputEnabled
  /\ \E q \in Queries \ {searchQuery} : searchQuery' = q
  /\ UNCHANGED <<repositories, hmIsLoading, hmCurrentPage, totalCount,
                 hmOutstanding, hmLast, hmToasts, hmExiting>>
  /\ UNCHANGED <<ivars, mvars, ovars, tvars, lvars, avars, cvars>>

\* handleKeyDown: Enter in the input calls handleSearch().
PressEnter == InputEnabled /\ HandleSearch(1)

\* The Search button: onClick={() => handleSearch(1)}.
ClickSearch == SearchEnabled /\ HandleSearch(1)

\* The clear button of the input.
ClickClear ==
  /\ ClearShown
  /\ searchQuery' = <<>>
  /\ repositories' = <<>>
  /\ hmCurrentPage' = 1
  /\ totalCount' = 0
  /\ UNCHANGED <<hmIsLoading, hmOutstanding, hmLast, hmToasts, hmExiting>>
  /\ UNCHANGED <<ivars, mvars, ovars, tvars, lvars, avars, cvars>>

\* Previous: onClick={() => handleSearch(currentPage - 1)}.
ClickPrevious == PreviousEnabled /\ HandleSearch(hmCurrentPage - 1)

\* Next: onClick={() => handleSearch(currentPage + 1)}.
ClickNext == NextEnabled /\ HandleSearch(hmCurrentPage + 1)

\* Previous of the results block that is fading out.
ClickPreviousExiting ==
  /\ hmExiting.shown /\ hmExiting.totalCount > hmPerPage
  /\ hmExiting.currentPage # 1
  /\ HandleSearch(hmExiting.currentPage - 1)

\* Next of the results block that is fading out.
ClickNextExiting ==
  /\ hmExiting.shown /\ hmExiting.totalCount > hmPerPage
  /\ hmExiting.currentPage < CeilDiv(hmExiting.totalCount, hmPerPage)
  /\ HandleSearch(hmExiting.currentPage + 1)

\* The exit animation has run: the old results block is unmounted.
ExitComplete ==
  /\ hmExiting.shown
  /\ hmExiting' = NoExiting
  /\ UNCHANGED <<searchQuery, repositories, hmIsLoading, hmCurrentPage, totalCount,
                 hmOutstanding, hmLast, hmToasts>>
  /\ UNCHANGED <<ivars, mvars, ovars, tvars, lvars, avars, cvars>>

\* An outstanding searchRepositories call resolves: the try block, then
\* finally.
SearchOk ==
  /\ \E k \in 1..Len(hmOutstanding) :
       /\ hmOutstanding' = SubSeq(hmOutstanding, 1, k - 1)
                             \o SubSeq(hmOutstanding, k + 1, Len(hmOutstanding))
       /\ \E response \in SearchAnswers :
            /\ repositories' = response.items
            /\ totalCount' = response.total_count
            /\ hmToasts' = IF Len(response.items) > 0 /\ hmOutstanding[k].page # 1
                             THEN hmToasts ELSE hmToasts + 1
  /\ hmIsLoading' = FALSE
  /\ hmLast' = "ok"
  /\ hmExiting' = NoExiting
  /\ UNCHANGED <<searchQuery, hmCurrentPage>>
  /\ UNCHANGED <<ivars, mvars, ovars, tvars, lvars, avars, cvars>>

\* An outstanding searchRepositories call rejects: the catch block, then
\* finally.
SearchFail ==
  /\ \E k \in 1..Len(hmOutstanding) :
       hmOutstanding' = SubSeq(hmOutstanding, 1, k - 1)
                          \o SubSeq(hmOutstanding, k + 1, Len(hmOutstanding))
  /\ hmToasts' = hmToasts + 1
  /\ repositories' = <<>>
  /\ totalCount' = 0
  /\ hmIsLoading' = FALSE
  /\ hmLast' = "failed"
  /\ hmExiting' = NoExiting
  /\ UNCHANGED <<searchQuery, hmCurrentPage>>
  /\ UNCHANGED <<ivars, mvars, ovars, tvars, lvars, avars, cvars>>

NextSearch ==
  \/ TypeQuery
  \/ PressEnter
  \/ ClickSearch
  \/ ClickClear
  \/ ClickPrevious
  \/ ClickNext
  \/ ClickPreviousExiting
  \/ ClickNextExiting
  \/ ExitComplete
  \/ SearchOk
  \/ SearchFail

SpecSearch == InitSearch /\ [][NextSearch]_vars

\* C28: single search in flight.  At most one search request is
\* outstanding; isLoading is true exactly while one is; and after a failed
\* search the result list is empty and the total count is 0.
C28_SingleSearch ==
  /\ Len(hmOutstanding) <= 1
  /\ hmIsLoading <=> Len(hmOutstanding) = 1
  /\ hmLast = "failed" => repositories = <<>> /\ totalCount = 0

(***************************************************************************)
(* components/repository/contributors-list.tsx: ContributorsList           *)
(***************************************************************************)
ITEMS_PER_PAGE == 100

\* Calls of getRepositoryContributors that may be outstanding together.
MaxPending == 2

\* A list of n contributors, named by their ids first + 1 .. first + n.
ContributorList(first, n) == [i \in 1..n |-> first + i]

\* The lists the data source may hold for an (owner, repo): none, exactly
\* one page, one more than a page, more than two pages, and a second list
\* of that length for another repository.
Upstreams ==
  { ContributorList(0, 0), ContributorList(0, ITEMS_PER_PAGE),
    ContributorList(0, ITEMS_PER_PAGE + 1), ContributorList(0, 250),
    ContributorList(1000, 250) }

\* Array.prototype.slice(start, end) for 0 <= start <= end.
Slice(arr, start, end) ==
  LET from == IF start > Len(arr) THEN Len(arr) ELSE start
      to   == IF end > Len(arr) THEN Len(arr) ELSE end
  IN  [k \in 1..(to - from) |-> arr[from + k]]

\* The values a render computes from the state.
totalPages == CeilDiv(Len(clContributors), ITEMS_PER_PAGE)
startIndex == (clCurrentPage - 1) * ITEMS_PER_PAGE
endIndex == startIndex + ITEMS_PER_PAGE
paginatedContributors == Slice(clContributors, startIndex, endIndex)

\* The pagination controls are rendered.
ControlsShown ==
  ~clIsLoading /\ clError = "" /\ Len(clContributors) > ITEMS_PER_PAGE

\* Effects run after the render is committed and before the next event.
EffectsDue == clFetchDue \/ clResetDue

\* The component has just been mounted for some (owner, repo): both effects
\* are due.
InitList ==
  /\ MergeIdle /\ ImpactIdle /\ PageIdle /\ TimelineIdle /\ LanguageIdle
  /\ ApiIdle /\ SearchIdle
  /\ clContributors = <<>>
  /\ clIsLoading = TRUE
  /\ clError = ""
  /\ clCurrentPage = 1
  /\ clPending = <<>>
  /\ clFetchDue = TRUE
  /\ clResetDue = TRUE
  /\ clUpstream \in Upstreams

\* The effects that are due run: the [owner, repo] effect up to its await,
\* then the [contributors.length] effect.
ListEffects ==
  /\ EffectsDue
  /\ IF clFetchDue
       THEN /\ clIsLoading' = TRUE
            /\ clError' = ""
            /\ clPending' = Append(clPending, clUpstream)
       ELSE UNCHANGED <<clIsLoading, clError, clPending>>
  /\ clCurrentPage' = IF clResetDue THEN 1 ELSE clCurrentPage
  /\ clFetchDue' = FALSE
  /\ clResetDue' = FALSE
  /\ UNCHANGED <<clContributors, clUpstream>>
  /\ UNCHANGED <<ivars, mvars, ovars, tvars, lvars, avars, svars>>

\* A reload: the component is rendered with another (owner, repo).
ListReload ==
  /\ ~EffectsDue
  /\ Len(clPending) < MaxPending
  /\ \E u \in Upstreams \ {clUpstream} : clUpstream' = u
  /\ clFetchDue' = TRUE
  /\ UNCHANGED <<clContributors, clIsLoading, clError, clCurrentPage, clPending,
                 clResetDue>>
  /\ UNCHANGED <<ivars, mvars, ovars, tvars, lvars, avars, svars>>

\* An outstanding call resolves: setContributors(data), then finally.  The
\* render that follows is committed with the currentPage it finds; the
\* [contributors.length] effect is due when the length has changed.
ListOk ==
  /\ ~EffectsDue
  /\ \E k \in 1..Len(clPending) :
       /\ clContributors' = clPending[k]
       /\ clResetDue' = (Len(clPending[k]) # Len(clContributors))
       /\ clPending' = SubSeq(clPending, 1, k - 1)
                         \o SubSeq(clPending, k + 1, Len(clPending))
  /\ clIsLoading' = FALSE
  /\ UNCHANGED <<clError, clCurrentPage, clFetchDue, clUpstream>>
  /\ UNCHANGED <<ivars, mvars, ovars, tvars, lvars, avars, svars>>

\* An outstanding call rejects: setError, then finally.
ListFail ==
  /\ ~EffectsDue
  /\ \E k \in 1..Len(clPending) :
       clPending' = SubSeq(clPending, 1, k - 1)
                      \o SubSeq(clPending, k + 1, Len(clPending))
  /\ clError' = "Failed to load contributors"
  /\ clIsLoading' = FALSE
  /\ UNCHANGED <<clContributors, clCurrentPage, clFetchDue, clResetDue, clUpstream>>
  /\ UNCHANGED <<ivars, mvars, ovars, tvars, lvars, avars, svars>>

\* handlePrevious, by the Previous button.
handlePrevious ==
  /\ ~EffectsDue
  /\ ControlsShown /\ clCurrentPage # 1
  /\ clCurrentPage' = IF clCurrentPage - 1 > 1 THEN clCurrentPage - 1 ELSE 1
  /\ UNCHANGED <<clContributors, clIsLoading, clError, clPending, clFetchDue,
                 clResetDue, clUpstream>>
  /\ UNCHANGED <<ivars, mvars, ovars, tvars, lvars, avars, svars>>

\* handleNext, by the Next button.
handleNext ==
  /\ ~EffectsDue
  /\ ControlsShown /\ clCurrentPage # totalPages
  /\ clCurrentPage' = IF clCurrentPage + 1 < totalPages
                        THEN clCurrentPage + 1 ELSE totalPages
  /\ UNCHANGED <<clContributors, clIsLoading, clError, clPending, clFetchDue,
                 clResetDue, clUpstream>>
  /\ UNCHANGED <<ivars, mvars, ovars, tvars, lvars, avars, svars>>

NextList ==
  \/ ListEffects
  \/ ListReload
  \/ ListOk
  \/ ListFail
  \/ handlePrevious
  \/ handleNext

SpecList == InitList /\ [][NextList]_vars

\* C29: contributor list page bounds.  currentPage is at least 1 and at
\* most max(1, totalPages) with totalPages = ceil(contributors / 100), and
\* the displayed slice is contributors[(currentPage-1)*100 .. currentPage*100).
C29_PageBounds ==
  LET pages == (Len(clContributors) + 99) \div 100
      first == (clCurrentPage - 1) * 100
      last  == IF clCurrentPage * 100 < Len(clContributors)
                 THEN clCurrentPage * 100 ELSE Len(clContributors)
  IN  /\ clCurrentPage >= 1
      /\ clCurrentPage <= (IF pages > 1 THEN pages ELSE 1)
      /\ Len(paginatedContributors) = (IF last > first THEN last - first ELSE 0)
      /\ \A k \in 1..Len(paginatedContributors) :
           paginatedContributors[k] = clContributors[first + k]

====
